---- MODULE Spec2Model ----
(***************************************************************************)
(* Dependency-graph service: the store (graphs, tasks, dependencies) and   *)
(* the handlers createGraph, updateGraph, deleteGraph, analyzeGraph,       *)
(* getGraphDetails, getTaskDetails and getGraphs, each analysing handler   *)
(* with its own copy of the algorithms.                                    *)
(*                                                                         *)
(* Row serial ids and timestamps are not modelled; rows keep insertion     *)
(* order, which is the order the selects return them in.                   *)
(***************************************************************************)
EXTENDS Integers, Sequences, FiniteSets, TLC

\* ------------------------------------------------------------------ bounds
\* a submitted task list: at most MaxTasks tasks, MaxDeps dependencies per task
\* and MaxEdges dependencies in all
MaxTasks == 3
MaxDeps == 2
MaxEdges == 3
\* graphs ever created in one behaviour
MaxGraphs == 1
\* a second family of behaviours: more graphs, of shorter task lists
MaxStoreGraphs == 2
MaxStoreTasks == 2
MaxStoreEdges == 1
\* a third family: lists of MaxTasks distinct tasks with MaxDenseEdges dependencies
MaxDenseEdges == 4

\* task ids are opaque strings, only ever compared for equality: a list names
\* its tasks in this order of first appearance
IdOrder == <<"a", "b", "c">>
TaskIds == {IdOrder[i] : i \in 1..Len(IdOrder)}
Names == {"n1", "n2"}

\* ------------------------------------------------------------------ values
\* topological_order: string[] | null
Null == [isNull |-> TRUE, order |-> <<>>]
Order(s) == [isNull |-> FALSE, order |-> s]

\* input.name === undefined / input.tasks === undefined
Undefined == "undefined"
\* null of JavaScript, NULL of the database
NullValue == "null"
\* x || null
OrNull(x) == IF x \in {Undefined, NullValue, ""} THEN NullValue ELSE x
\* task.status || 'pending'
OrPending(status) == IF status = Undefined THEN "pending" ELSE status
NoTasks == [given |-> FALSE, list |-> <<>>]
Tasks(l) == [given |-> TRUE, list |-> l]

EmptyLevels == [t \in {} |-> 0]
NoAnalysis ==
  [present |-> FALSE, has_cycles |-> FALSE, cycles |-> <<>>,
   topological_order |-> Null, task_levels |-> EmptyLevels]
Analysis(h, c, o, l) ==
  [present |-> TRUE, has_cycles |-> h, cycles |-> c,
   topological_order |-> o, task_levels |-> l]

\* ------------------------------------------------------------------ arrays
Range(s) == {s[i] : i \in 1..Len(s)}

Max(x, y) == IF x >= y THEN x ELSE y

\* Array.prototype.indexOf, 1-based; 0 stands for -1
IndexOf(s, x) ==
  IF \E i \in 1..Len(s) : s[i] = x
  THEN CHOOSE i \in 1..Len(s) : s[i] = x /\ \A j \in 1..(i - 1) : s[j] # x
  ELSE 0

\* Array.prototype.slice(start) for a 1-based start
Slice(s, start) == SubSeq(s, start, Len(s))

\* keys of a Map / members of a Set in insertion order
RECURSIVE InsertionOrder(_)
InsertionOrder(s) ==
  IF s = <<>> THEN <<>>
  ELSE LET front == InsertionOrder(SubSeq(s, 1, Len(s) - 1))
           last == s[Len(s)]
       IN IF last \in Range(front) THEN front ELSE Append(front, last)

RECURSIVE SelectRows(_, _)
SelectRows(rows, g) ==
  IF rows = <<>> THEN <<>>
  ELSE IF Head(rows).graph_id = g
       THEN <<Head(rows)>> \o SelectRows(Tail(rows), g)
       ELSE SelectRows(Tail(rows), g)

RECURSIVE TaskIdsOf(_)
TaskIdsOf(ts) ==
  IF ts = <<>> THEN <<>> ELSE <<Head(ts).task_id>> \o TaskIdsOf(Tail(ts))

\* ------------------------------------------------------------------ maps
\* A Map / Record is a function whose domain is the set of keys present.
EmptyMap == [k \in {} |-> 0]
Has(m, k) == k \in DOMAIN m
\* m.get(k) || dflt
Get(m, k, dflt) == IF k \in DOMAIN m THEN m[k] ELSE dflt
\* m.set(k, v)
Put(m, k, v) == [x \in (DOMAIN m) \cup {k} |-> IF x = k THEN v ELSE m[x]]

\* tasks.forEach(t => m.set(t, v))
RECURSIVE InitMap(_, _)
InitMap(keys, v) ==
  IF keys = <<>> THEN EmptyMap
  ELSE Put(InitMap(SubSeq(keys, 1, Len(keys) - 1), v), keys[Len(keys)], v)

\* ------------------------------------------------------------------ analyzeGraph
\* adjacencyList: prerequisite -> dependents
RECURSIVE analyzeAdjacency(_, _)
analyzeAdjacency(taskIds, deps) ==
  IF deps = <<>> THEN InitMap(taskIds, <<>>)
  ELSE LET m == analyzeAdjacency(taskIds, SubSeq(deps, 1, Len(deps) - 1))
           d == deps[Len(deps)]
       IN Put(m, d.depends_on_task_id,
              Append(Get(m, d.depends_on_task_id, <<>>), d.task_id))

\* st = [color, cycles, currentPath], shared by the whole search
RECURSIVE dfsForCycles(_, _, _)
RECURSIVE dfsForCyclesNeighbors(_, _, _, _)
dfsForCycles(adj, node, st) ==
  LET entered == [st EXCEPT !.color = Put(@, node, "gray"),
                            !.currentPath = Append(@, node)]
      scanned == dfsForCyclesNeighbors(adj, Get(adj, node, <<>>), 1, entered)
  IN [scanned EXCEPT !.currentPath = SubSeq(@, 1, Len(@) - 1),
                     !.color = Put(@, node, "black")]

\* dfsForCyclesNeighbors reporting the whole current path, not its suffix from
\* the in-progress neighbour
dfsForCyclesWholePath(adj, neighbors, i, st) ==
  IF i > Len(neighbors) THEN st
  ELSE LET neighbor == neighbors[i]
           c == Get(st.color, neighbor, "none")
           next ==
             IF c = "gray"
             THEN [st EXCEPT !.cycles = Append(@, Append(st.currentPath, neighbor))]
             ELSE IF c = "white" THEN dfsForCycles(adj, neighbor, st)
             ELSE st
       IN dfsForCyclesNeighbors(adj, neighbors, i + 1, next)

dfsForCyclesNeighbors(adj, neighbors, i, st) ==
  IF i > Len(neighbors) THEN st
  ELSE LET neighbor == neighbors[i]
           c == Get(st.color, neighbor, "none")
           next ==
             IF c = "gray"
             THEN [st EXCEPT !.cycles =
                     Append(@, Append(Slice(st.currentPath,
                                            IndexOf(st.currentPath, neighbor)),
                                      neighbor))]
             ELSE IF c = "white" THEN dfsForCycles(adj, neighbor, st)
             ELSE st
       IN dfsForCyclesNeighbors(adj, neighbors, i + 1, next)

\* allTaskIds.forEach(taskId => if white then dfsForCycles(taskId))
RECURSIVE analyzeRoots(_, _, _, _)
analyzeRoots(adj, ids, i, st) ==
  IF i > Len(ids) THEN st
  ELSE analyzeRoots(adj, ids, i + 1,
         IF Get(st.color, ids[i], "none") = "white"
         THEN dfsForCycles(adj, ids[i], st) ELSE st)

RECURSIVE analyzeInDegree(_, _)
analyzeInDegree(ids, deps) ==
  IF deps = <<>> THEN InitMap(ids, 0)
  ELSE LET m == analyzeInDegree(ids, SubSeq(deps, 1, Len(deps) - 1))
           d == deps[Len(deps)]
       IN Put(m, d.task_id, Get(m, d.task_id, 0) + 1)

\* the tasks whose in-degree is zero, in key order
RECURSIVE ZeroDegree(_, _)
ZeroDegree(ids, inDegree) ==
  IF ids = <<>> THEN <<>>
  ELSE (IF Get(inDegree, Head(ids), 0) = 0 THEN <<Head(ids)>> ELSE <<>>)
       \o ZeroDegree(Tail(ids), inDegree)

\* st = [inDegree, queue]
RECURSIVE analyzeKahnNeighbors(_, _, _)
analyzeKahnNeighbors(neighbors, i, st) ==
  IF i > Len(neighbors) THEN st
  ELSE LET neighbor == neighbors[i]
           newInDegree == Get(st.inDegree, neighbor, 0) - 1
       IN analyzeKahnNeighbors(neighbors, i + 1,
            [inDegree |-> Put(st.inDegree, neighbor, newInDegree),
             queue |-> IF newInDegree = 0 THEN Append(st.queue, neighbor)
                       ELSE st.queue])

RECURSIVE analyzeKahn(_, _, _, _)
\* analyzeKahn taking the newest entry of the queue (queue.pop()) instead of the
\* oldest
analyzeKahnNewestFirst(adj, inDegree, queue, order) ==
  IF queue = <<>> THEN order
  ELSE LET current == queue[Len(queue)]
           st == analyzeKahnNeighbors(Get(adj, current, <<>>), 1,
                   [inDegree |-> inDegree,
                    queue |-> SubSeq(queue, 1, Len(queue) - 1)])
       IN analyzeKahn(adj, st.inDegree, st.queue, Append(order, current))

analyzeKahn(adj, inDegree, queue, order) ==
  IF queue = <<>> THEN order
  ELSE LET current == Head(queue)
           st == analyzeKahnNeighbors(Get(adj, current, <<>>), 1,
                   [inDegree |-> inDegree, queue |-> Tail(queue)])
       IN analyzeKahn(adj, st.inDegree, st.queue, Append(order, current))

RECURSIVE analyzeLevelNeighbors(_, _, _, _)
analyzeLevelNeighbors(neighbors, i, currentLevel, levels) ==
  IF i > Len(neighbors) THEN levels
  ELSE analyzeLevelNeighbors(neighbors, i + 1, currentLevel,
         Put(levels, neighbors[i],
             Max(Get(levels, neighbors[i], 0), currentLevel + 1)))

\* topologicalOrder.forEach(taskId => raise the level of each dependent)
RECURSIVE analyzeLevels(_, _, _, _)
analyzeLevels(adj, order, i, levels) ==
  IF i > Len(order) THEN levels
  ELSE analyzeLevels(adj, order, i + 1,
         analyzeLevelNeighbors(Get(adj, order[i], <<>>), 1,
                               Get(levels, order[i], 0), levels))

\* the analysis of the task rows and dependency rows of one graph
analyzeGraph(tasks, deps) ==
  LET allTaskIds == InsertionOrder(TaskIdsOf(tasks))
      adjacencyList == analyzeAdjacency(TaskIdsOf(tasks), deps)
      searched == analyzeRoots(adjacencyList, allTaskIds, 1,
                    [color |-> InitMap(allTaskIds, "white"),
                     cycles |-> <<>>, currentPath |-> <<>>])
      cycles == searched.cycles
      hasCycles == Len(cycles) > 0
      inDegree == analyzeInDegree(allTaskIds, deps)
      topologicalOrder ==
        analyzeKahn(adjacencyList, inDegree, ZeroDegree(allTaskIds, inDegree), <<>>)
      levels == analyzeLevels(adjacencyList, topologicalOrder, 1,
                              InitMap(allTaskIds, 0))
  IN IF hasCycles
     THEN Analysis(TRUE, cycles, Null, EmptyLevels)
     ELSE Analysis(FALSE, cycles, Order(topologicalOrder), levels)

\* ------------------------------------------------------------------ getGraphDetails
\* adjList and inDegree; an edge with an undeclared endpoint is skipped
RECURSIVE detailsGraph(_, _)
detailsGraph(taskIds, deps) ==
  IF deps = <<>>
  THEN [adjList |-> InitMap(taskIds, <<>>), inDegree |-> InitMap(taskIds, 0)]
  ELSE LET g == detailsGraph(taskIds, SubSeq(deps, 1, Len(deps) - 1))
           from == deps[Len(deps)].depends_on_task_id
           to == deps[Len(deps)].task_id
       IN IF Has(g.adjList, from) /\ Has(g.inDegree, to)
          THEN [adjList |-> Put(g.adjList, from, Append(g.adjList[from], to)),
                inDegree |-> Put(g.inDegree, to, g.inDegree[to] + 1)]
          ELSE g

\* st = [visited, recStack, cycles]; every call works on its own copy of path
RECURSIVE detailsDfs(_, _, _, _)
RECURSIVE detailsDfsNeighbors(_, _, _, _, _)
detailsDfs(adjList, node, path, st) ==
  LET entered == [st EXCEPT !.visited = @ \cup {node}, !.recStack = @ \cup {node}]
      scanned == detailsDfsNeighbors(adjList, Get(adjList, node, <<>>), 1,
                                     Append(path, node), entered)
  IN [scanned EXCEPT !.recStack = @ \ {node}]

detailsDfsNeighbors(adjList, neighbors, i, path, st) ==
  IF i > Len(neighbors) THEN st
  ELSE LET neighbor == neighbors[i]
           cycleStart == IndexOf(path, neighbor)
           next ==
             IF neighbor \notin st.visited
             THEN detailsDfs(adjList, neighbor, path, st)
             ELSE IF neighbor \in st.recStack /\ cycleStart # 0
             THEN [st EXCEPT !.cycles =
                     Append(@, Append(Slice(path, cycleStart), neighbor))]
             ELSE st
       IN detailsDfsNeighbors(adjList, neighbors, i + 1, path, next)

RECURSIVE detailsRoots(_, _, _, _)
\* detailsRoots starting a search at every key, visited or not
detailsRootsUnchecked(adjList, keys, i, st) ==
  IF i > Len(keys) THEN st
  ELSE detailsRoots(adjList, keys, i + 1, detailsDfs(adjList, keys[i], <<>>, st))

detailsRoots(adjList, keys, i, st) ==
  IF i > Len(keys) THEN st
  ELSE detailsRoots(adjList, keys, i + 1,
         IF keys[i] \notin st.visited
         THEN detailsDfs(adjList, keys[i], <<>>, st) ELSE st)

detailsDetectCycles(adjList, keys) ==
  LET searched == detailsRoots(adjList, keys, 1,
                    [visited |-> {}, recStack |-> {}, cycles |-> <<>>])
  IN [hasCycles |-> Len(searched.cycles) > 0, cycles |-> searched.cycles]

\* detailsRootLevels without the levels[node] = 0 of the seeding loop
detailsRootLevelsUnset(keys, inDegree) == EmptyMap

\* levels[node] = 0 for every node of in-degree zero, in key order
RECURSIVE detailsRootLevels(_, _)
detailsRootLevels(keys, inDegree) ==
  IF keys = <<>> THEN EmptyMap
  ELSE LET m == detailsRootLevels(SubSeq(keys, 1, Len(keys) - 1), inDegree)
           node == keys[Len(keys)]
       IN IF inDegree[node] = 0 THEN Put(m, node, 0) ELSE m

\* st = [inDegree, queue, levels]
RECURSIVE detailsKahnNeighbors(_, _, _, _)
\* detailsKahnNeighbors putting a released task in front of the queue
\* (queue.unshift)
detailsKahnNeighborsInFront(neighbors, i, current, st) ==
  IF i > Len(neighbors) THEN st
  ELSE LET neighbor == neighbors[i]
           newDegree == st.inDegree[neighbor] - 1
           currentLevel == Get(st.levels, current, 0)
       IN detailsKahnNeighbors(neighbors, i + 1, current,
            [inDegree |-> Put(st.inDegree, neighbor, newDegree),
             levels |-> Put(st.levels, neighbor,
                            Max(Get(st.levels, neighbor, 0), currentLevel + 1)),
             queue |-> IF newDegree = 0 THEN <<neighbor>> \o st.queue
                       ELSE st.queue])

detailsKahnNeighbors(neighbors, i, current, st) ==
  IF i > Len(neighbors) THEN st
  ELSE LET neighbor == neighbors[i]
           newDegree == st.inDegree[neighbor] - 1
           currentLevel == Get(st.levels, current, 0)
       IN detailsKahnNeighbors(neighbors, i + 1, current,
            [inDegree |-> Put(st.inDegree, neighbor, newDegree),
             levels |-> Put(st.levels, neighbor,
                            Max(Get(st.levels, neighbor, 0), currentLevel + 1)),
             queue |-> IF newDegree = 0 THEN Append(st.queue, neighbor)
                       ELSE st.queue])

RECURSIVE detailsKahn(_, _, _)
detailsKahn(adjList, st, order) ==
  IF st.queue = <<>> THEN [order |-> order, levels |-> st.levels]
  ELSE LET current == Head(st.queue)
       IN detailsKahn(adjList,
            detailsKahnNeighbors(Get(adjList, current, <<>>), 1, current,
                                 [st EXCEPT !.queue = Tail(@)]),
            Append(order, current))

calculateTopologicalOrderAndLevels(adjList, inDegree, keys) ==
  detailsKahn(adjList,
              [inDegree |-> inDegree, queue |-> ZeroDegree(keys, inDegree),
               levels |-> detailsRootLevels(keys, inDegree)],
              <<>>)

\* analyzeGraph of get_graph_details.ts
detailsAnalyzeGraph(tasks, deps) ==
  LET keys == InsertionOrder(TaskIdsOf(tasks))
      g == detailsGraph(TaskIdsOf(tasks), deps)
      found == detailsDetectCycles(g.adjList, keys)
      result == calculateTopologicalOrderAndLevels(g.adjList, g.inDegree, keys)
  IN IF found.hasCycles
     THEN Analysis(TRUE, found.cycles, Null, EmptyLevels)
     ELSE Analysis(FALSE, found.cycles, Order(result.order), result.levels)

\* ------------------------------------------------------------------ createGraph
\* dependsOnMap.set(task.task_id, task.dependencies), task by task
RECURSIVE createDependsOnMap(_)
createDependsOnMap(tasks) ==
  IF tasks = <<>> THEN EmptyMap
  ELSE Put(createDependsOnMap(SubSeq(tasks, 1, Len(tasks) - 1)),
           tasks[Len(tasks)].task_id, tasks[Len(tasks)].dependencies)

\* st = [visited, recursionStack, cycles]; walks task -> its dependencies
RECURSIVE createDfs(_, _, _, _)
RECURSIVE createDfsDeps(_, _, _, _, _)
\* createDfs without visited.add(task): a later root searches the task again
createDfsUnmarked(dependencies, task, path, st) ==
  IF task \in st.recursionStack
  THEN [st EXCEPT !.cycles =
          Append(@, Append(Slice(path, IndexOf(path, task)), task))]
  ELSE IF task \in st.visited THEN st
  ELSE LET entered == [st EXCEPT !.recursionStack = @ \cup {task}]
           scanned == createDfsDeps(dependencies, Get(dependencies, task, <<>>), 1,
                                    Append(path, task), entered)
       IN [scanned EXCEPT !.recursionStack = @ \ {task}]

\* createDfs asking visited before recursionStack: an in-progress task looks done
createDfsVisitedFirst(dependencies, task, path, st) ==
  IF task \in st.visited THEN st
  ELSE IF task \in st.recursionStack
  THEN [st EXCEPT !.cycles =
          Append(@, Append(Slice(path, IndexOf(path, task)), task))]
  ELSE LET entered == [st EXCEPT !.visited = @ \cup {task},
                                 !.recursionStack = @ \cup {task}]
           scanned == createDfsDeps(dependencies, Get(dependencies, task, <<>>), 1,
                                    Append(path, task), entered)
       IN [scanned EXCEPT !.recursionStack = @ \ {task}]

createDfs(dependencies, task, path, st) ==
  IF task \in st.recursionStack
  THEN [st EXCEPT !.cycles =
          Append(@, Append(Slice(path, IndexOf(path, task)), task))]
  ELSE IF task \in st.visited THEN st
  ELSE LET entered == [st EXCEPT !.visited = @ \cup {task},
                                 !.recursionStack = @ \cup {task}]
           scanned == createDfsDeps(dependencies, Get(dependencies, task, <<>>), 1,
                                    Append(path, task), entered)
       IN [scanned EXCEPT !.recursionStack = @ \ {task}]

createDfsDeps(dependencies, deps, i, path, st) ==
  IF i > Len(deps) THEN st
  ELSE createDfsDeps(dependencies, deps, i + 1, path,
                     createDfs(dependencies, deps[i], path, st))

RECURSIVE createRoots(_, _, _, _)
\* createRoots searching from the first task only
createRootsFirstOnly(dependencies, tasks, i, st) ==
  IF i > Len(tasks) \/ i > 1 THEN st
  ELSE createRoots(dependencies, tasks, i + 1,
         createDfs(dependencies, tasks[i], <<>>, st))

createRoots(dependencies, tasks, i, st) ==
  IF i > Len(tasks) THEN st
  ELSE createRoots(dependencies, tasks, i + 1,
         IF tasks[i] \notin st.visited
         THEN createDfs(dependencies, tasks[i], <<>>, st) ELSE st)

createDetectCycles(tasks, dependencies) ==
  LET searched == createRoots(dependencies, tasks, 1,
                    [visited |-> {}, recursionStack |-> {}, cycles |-> <<>>])
  IN [hasCycles |-> Len(searched.cycles) > 0, cycles |-> searched.cycles]

\* dependentsMap.get(dep).push(task) for every dep of every task, in map order
RECURSIVE createPushDependents(_, _, _, _)
createPushDependents(m, task, deps, i) ==
  IF i > Len(deps) THEN m
  ELSE createPushDependents(Put(m, deps[i], Append(Get(m, deps[i], <<>>), task)),
                            task, deps, i + 1)

RECURSIVE createDependentsMap(_, _, _)
createDependentsMap(tasks, keys, dependsOnMap) ==
  IF keys = <<>> THEN InitMap(tasks, <<>>)
  ELSE createPushDependents(
         createDependentsMap(tasks, SubSeq(keys, 1, Len(keys) - 1), dependsOnMap),
         keys[Len(keys)], dependsOnMap[keys[Len(keys)]], 1)

\* inDegree.set(task, deps.length)
RECURSIVE createInDegree(_, _)
createInDegree(tasks, dependsOnMap) ==
  IF tasks = <<>> THEN EmptyMap
  ELSE Put(createInDegree(SubSeq(tasks, 1, Len(tasks) - 1), dependsOnMap),
           tasks[Len(tasks)], Len(Get(dependsOnMap, tasks[Len(tasks)], <<>>)))

\* st = [inDegree, queue]
RECURSIVE createKahnDependents(_, _, _)
createKahnDependents(dependents, i, st) ==
  IF i > Len(dependents) THEN st
  ELSE LET dependent == dependents[i]
           newDegree == Get(st.inDegree, dependent, 0) - 1
       IN createKahnDependents(dependents, i + 1,
            [inDegree |-> Put(st.inDegree, dependent, newDegree),
             queue |-> IF newDegree = 0 THEN Append(st.queue, dependent)
                       ELSE st.queue])

RECURSIVE createKahn(_, _, _, _)
createKahn(dependentsMap, inDegree, queue, result) ==
  IF queue = <<>> THEN result
  ELSE LET current == Head(queue)
           st == createKahnDependents(Get(dependentsMap, current, <<>>), 1,
                   [inDegree |-> inDegree, queue |-> Tail(queue)])
       IN createKahn(dependentsMap, st.inDegree, st.queue, Append(result, current))

calculateTopologicalOrder(tasks, dependsOnMap) ==
  IF createDetectCycles(tasks, dependsOnMap).hasCycles THEN Null
  ELSE LET inDegree == createInDegree(tasks, dependsOnMap)
       IN Order(createKahn(
                  createDependentsMap(tasks, InsertionOrder(tasks), dependsOnMap),
                  inDegree, ZeroDegree(InsertionOrder(tasks), inDegree), <<>>))

\* st = [levels, visited]; the result is [st, level]
RECURSIVE calculateLevel(_, _, _)
RECURSIVE calculateLevelDeps(_, _, _, _, _)
calculateLevel(dependsOnMap, task, st) ==
  IF Has(st.levels, task) THEN [st |-> st, level |-> st.levels[task]]
  ELSE IF task \in st.visited THEN [st |-> st, level |-> 0]
  ELSE LET deps == Get(dependsOnMap, task, <<>>)
           entered == [st EXCEPT !.visited = @ \cup {task}]
           sub == calculateLevelDeps(dependsOnMap, deps, 1, entered, 0)
           level == IF Len(deps) = 0 THEN 0 ELSE sub.level + 1
           left == IF Len(deps) = 0 THEN entered ELSE sub.st
       IN [st |-> [levels |-> Put(left.levels, task, level),
                   visited |-> left.visited \ {task}],
           level |-> level]

\* calculateLevelDeps keeping the level of the last dependency, not the largest
calculateLevelDepsLast(dependsOnMap, deps, i, st, maxDepLevel) ==
  IF i > Len(deps) THEN [st |-> st, level |-> maxDepLevel]
  ELSE LET r == calculateLevel(dependsOnMap, deps[i], st)
       IN calculateLevelDeps(dependsOnMap, deps, i + 1, r.st, r.level)

\* Math.max(...deps.map(dep => calculateLevel(dep))); levels are never negative
calculateLevelDeps(dependsOnMap, deps, i, st, maxDepLevel) ==
  IF i > Len(deps) THEN [st |-> st, level |-> maxDepLevel]
  ELSE LET r == calculateLevel(dependsOnMap, deps[i], st)
       IN calculateLevelDeps(dependsOnMap, deps, i + 1, r.st,
                             Max(maxDepLevel, r.level))

RECURSIVE createLevelRoots(_, _, _, _)
createLevelRoots(dependsOnMap, tasks, i, st) ==
  IF i > Len(tasks) THEN st
  ELSE createLevelRoots(dependsOnMap, tasks, i + 1,
                        calculateLevel(dependsOnMap, tasks[i], st).st)

createCalculateTaskLevels(tasks, dependsOnMap) ==
  createLevelRoots(dependsOnMap, tasks, 1, [levels |-> EmptyMap, visited |-> {}]).levels

\* the analysis createGraph returns for validated input tasks
createAnalysis(tasks) ==
  LET taskIds == TaskIdsOf(tasks)
      dependsOnMap == createDependsOnMap(tasks)
      found == createDetectCycles(taskIds, dependsOnMap)
  IN Analysis(found.hasCycles, found.cycles,
              calculateTopologicalOrder(taskIds, dependsOnMap),
              createCalculateTaskLevels(taskIds, dependsOnMap))

\* ------------------------------------------------------------------ updateGraph
\* input.tasks.flatMap(task => task.dependencies.map(depId => edge))
RECURSIVE EdgesOfTask(_, _)
EdgesOfTask(task_id, dependencies) ==
  IF dependencies = <<>> THEN <<>>
  ELSE <<[task_id |-> task_id, depends_on_task_id |-> Head(dependencies)]>>
       \o EdgesOfTask(task_id, Tail(dependencies))

RECURSIVE allDependencies(_)
allDependencies(tasks) ==
  IF tasks = <<>> THEN <<>>
  ELSE EdgesOfTask(Head(tasks).task_id, Head(tasks).dependencies)
       \o allDependencies(Tail(tasks))

\* graph of detectCycles: dependent -> prerequisites
RECURSIVE updateBackwardGraph(_, _)
updateBackwardGraph(taskIds, dependencies) ==
  IF dependencies = <<>> THEN InitMap(taskIds, <<>>)
  ELSE LET m == updateBackwardGraph(taskIds, SubSeq(dependencies, 1, Len(dependencies) - 1))
           dep == dependencies[Len(dependencies)]
       IN Put(m, dep.task_id, Append(Get(m, dep.task_id, <<>>), dep.depends_on_task_id))

\* graph of topologicalSort and calculateTaskLevels: prerequisite -> dependents
RECURSIVE updateForwardGraph(_, _)
\* updateForwardGraph putting each new dependent in front (deps.unshift)
updateForwardGraphNewestFirst(taskIds, dependencies) ==
  IF dependencies = <<>> THEN InitMap(taskIds, <<>>)
  ELSE LET m == updateForwardGraph(taskIds, SubSeq(dependencies, 1, Len(dependencies) - 1))
           dep == dependencies[Len(dependencies)]
       IN Put(m, dep.depends_on_task_id,
              <<dep.task_id>> \o Get(m, dep.depends_on_task_id, <<>>))

updateForwardGraph(taskIds, dependencies) ==
  IF dependencies = <<>> THEN InitMap(taskIds, <<>>)
  ELSE LET m == updateForwardGraph(taskIds, SubSeq(dependencies, 1, Len(dependencies) - 1))
           dep == dependencies[Len(dependencies)]
       IN Put(m, dep.depends_on_task_id,
              Append(Get(m, dep.depends_on_task_id, <<>>), dep.task_id))

\* st = [visited, recStack, cycles]; every call works on its own copy of path
RECURSIVE updateDfs(_, _, _, _)
RECURSIVE updateDfsNeighbors(_, _, _, _, _)
updateDfs(graph, node, path, st) ==
  LET entered == [st EXCEPT !.visited = @ \cup {node}, !.recStack = @ \cup {node}]
      scanned == updateDfsNeighbors(graph, Get(graph, node, <<>>), 1,
                                    Append(path, node), entered)
  IN [scanned EXCEPT !.recStack = @ \ {node}]

updateDfsNeighbors(graph, neighbors, i, path, st) ==
  IF i > Len(neighbors) THEN st
  ELSE LET neighbor == neighbors[i]
           cycleStart == IndexOf(path, neighbor)
           next ==
             IF neighbor \notin st.visited
             THEN updateDfs(graph, neighbor, path, st)
             ELSE IF neighbor \in st.recStack /\ cycleStart # 0
             THEN [st EXCEPT !.cycles =
                     Append(@, Append(Slice(path, cycleStart), neighbor))]
             ELSE st
       IN updateDfsNeighbors(graph, neighbors, i + 1, path, next)

RECURSIVE updateRoots(_, _, _, _)
updateRoots(graph, taskIds, i, st) ==
  IF i > Len(taskIds) THEN st
  ELSE updateRoots(graph, taskIds, i + 1,
         IF taskIds[i] \notin st.visited
         THEN updateDfs(graph, taskIds[i], <<>>, st) ELSE st)

updateDetectCycles(taskIds, dependencies) ==
  updateRoots(updateBackwardGraph(taskIds, dependencies), taskIds, 1,
              [visited |-> {}, recStack |-> {}, cycles |-> <<>>]).cycles

RECURSIVE updateInDegree(_, _)
updateInDegree(taskIds, dependencies) ==
  IF dependencies = <<>> THEN InitMap(taskIds, 0)
  ELSE LET m == updateInDegree(taskIds, SubSeq(dependencies, 1, Len(dependencies) - 1))
           dep == dependencies[Len(dependencies)]
       IN Put(m, dep.task_id, Get(m, dep.task_id, 0) + 1)

\* st = [inDegree, queue]
RECURSIVE updateKahnNeighbors(_, _, _)
updateKahnNeighbors(neighbors, i, st) ==
  IF i > Len(neighbors) THEN st
  ELSE LET neighbor == neighbors[i]
           newDegree == Get(st.inDegree, neighbor, 0) - 1
       IN updateKahnNeighbors(neighbors, i + 1,
            [inDegree |-> Put(st.inDegree, neighbor, newDegree),
             queue |-> IF newDegree = 0 THEN Append(st.queue, neighbor)
                       ELSE st.queue])

RECURSIVE updateKahn(_, _, _, _)
updateKahn(graph, inDegree, queue, result) ==
  IF queue = <<>> THEN result
  ELSE LET current == Head(queue)
           st == updateKahnNeighbors(Get(graph, current, <<>>), 1,
                   [inDegree |-> inDegree, queue |-> Tail(queue)])
       IN updateKahn(graph, st.inDegree, st.queue, Append(result, current))

\* topologicalSort returning what the loop emitted, whatever its length
topologicalSortUnchecked(taskIds, dependencies) ==
  LET inDegree == updateInDegree(taskIds, dependencies)
  IN Order(updateKahn(updateForwardGraph(taskIds, dependencies), inDegree,
                      ZeroDegree(InsertionOrder(taskIds), inDegree), <<>>))

topologicalSort(taskIds, dependencies) ==
  LET inDegree == updateInDegree(taskIds, dependencies)
      result == updateKahn(updateForwardGraph(taskIds, dependencies), inDegree,
                           ZeroDegree(InsertionOrder(taskIds), inDegree), <<>>)
  IN IF Len(result) = Len(taskIds) THEN Order(result) ELSE Null

\* root nodes: the tasks that are the dependent of no edge, in declared order
RECURSIVE updateLevelRoots(_, _)
updateLevelRoots(taskIds, dependencies) ==
  IF taskIds = <<>> THEN <<>>
  ELSE (IF \E k \in 1..Len(dependencies) : dependencies[k].task_id = Head(taskIds)
        THEN <<>> ELSE <<Head(taskIds)>>)
       \o updateLevelRoots(Tail(taskIds), dependencies)

\* st = [levels, queue, visited]
RECURSIVE updateLevelDependents(_, _, _, _, _)
updateLevelDependents(dependencies, dependents, i, currentLevel, st) ==
  IF i > Len(dependents) THEN st
  ELSE LET dependent == dependents[i]
           raised == [st EXCEPT !.levels =
                        Put(@, dependent, Max(@[dependent], currentLevel + 1))]
           allProcessed ==
             \A k \in 1..Len(dependencies) :
               dependencies[k].task_id = dependent
                 => dependencies[k].depends_on_task_id \in st.visited
           next ==
             IF dependent \notin st.visited /\ allProcessed
             THEN [raised EXCEPT !.queue = Append(@, dependent),
                                 !.visited = @ \cup {dependent}]
             ELSE raised
       IN updateLevelDependents(dependencies, dependents, i + 1, currentLevel, next)

RECURSIVE updateLevelBfs(_, _, _)
updateLevelBfs(graph, dependencies, st) ==
  IF st.queue = <<>> THEN st.levels
  ELSE LET current == Head(st.queue)
       IN updateLevelBfs(graph, dependencies,
            updateLevelDependents(dependencies, Get(graph, current, <<>>), 1,
                                  st.levels[current],
                                  [st EXCEPT !.queue = Tail(@)]))

updateCalculateTaskLevels(taskIds, dependencies) ==
  LET roots == updateLevelRoots(taskIds, dependencies)
  IN updateLevelBfs(updateForwardGraph(taskIds, dependencies), dependencies,
                    [levels |-> InitMap(taskIds, 0), queue |-> roots,
                     visited |-> Range(roots)])

\* graphData.analysis of updateGraph for an input task list
updateAnalysis(tasks) ==
  LET taskIds == TaskIdsOf(tasks)
      deps == allDependencies(tasks)
      cycles == updateDetectCycles(taskIds, deps)
  IN Analysis(Len(cycles) > 0, cycles, topologicalSort(taskIds, deps),
              updateCalculateTaskLevels(taskIds, deps))

\* ------------------------------------------------------------------ store
VARIABLES
  graphs,        \* graphsTable: id -> [name, description, graph_data]
  tasks,         \* tasksTable rows [graph_id, task_id, name, status, description]
  dependencies,  \* dependenciesTable rows [graph_id, task_id, depends_on_task_id]
  nextId,        \* the serial of graphsTable.id
  result,        \* the last call and what it returned or threw
  pool,          \* what the clients submit: the empty task list, one more, names,
                 \* description strings, and how many graphs they create
  run            \* one analysis taken step by step: its phase, stacks, queue and
                 \* maps (idle while the handlers are taken as single steps)

vars == <<graphs, tasks, dependencies, nextId, result, pool, run>>
store == <<graphs, tasks, dependencies, nextId>>

\* sequences over S of length at most n
SeqsUpTo(S, n) == UNION {[1..k -> S] : k \in 0..n}

Min(x, y) == IF x <= y THEN x ELSE y

\* the lists of exactly n tasks with at most e dependencies in all, each task with
\* at most MaxDeps, after a prefix that named the first k ids of IdOrder
RECURSIVE ListsOf(_, _, _)
ListsOf(n, e, k) ==
  IF n = 0 THEN {<<>>}
  ELSE UNION {
         {<<[task_id |-> IdOrder[i], name |-> "t", status |-> "pending",
             description |-> Undefined, dependencies |-> d]>> \o rest :
            rest \in ListsOf(n - 1, e - Len(d), Max(k, i))} :
         i \in 1..Min(k + 1, Len(IdOrder)),
         d \in SeqsUpTo(TaskIds, Min(MaxDeps, e))}

\* the task lists of at most MaxTasks tasks and MaxEdges dependencies
TaskLists == UNION {ListsOf(n, MaxEdges, 0) : n \in 0..MaxTasks}

\* the task lists of at most MaxStoreTasks tasks and MaxStoreEdges dependencies
StoreLists == UNION {ListsOf(n, MaxStoreEdges, 0) : n \in 0..MaxStoreTasks}

\* name, status and description of the tasks of a submitted list, by position;
\* status and description are optional, description is nullable
Detail(name, status, description) ==
  [name |-> name, status |-> status, description |-> description]
DetailSeqs ==
  {<<Detail("t", "completed", NullValue), Detail("u", Undefined, "d1")>>,
   <<Detail("u", "blocked", ""), Detail("t", "in_progress", "d2")>>}

Decorate(list, details) ==
  [i \in 1..Len(list) |->
     LET d == details[((i - 1) % Len(details)) + 1]
     IN [list[i] EXCEPT !.name = d.name, !.status = d.status,
                        !.description = d.description]]

Descriptions == {NullValue, "", "g1"}

\* tasks.map(task => ({graph_id, task_id, name, status: task.status || 'pending',
\* description: task.description || null}))
RECURSIVE RowsOfTasks(_, _)
\* RowsOfTasks leaving status to the column default 'pending'
RowsOfTasksPending(g, list) ==
  IF list = <<>> THEN <<>>
  ELSE <<[graph_id |-> g, task_id |-> Head(list).task_id, name |-> Head(list).name,
          status |-> "pending",
          description |-> OrNull(Head(list).description)]>>
       \o RowsOfTasks(g, Tail(list))

RowsOfTasks(g, list) ==
  IF list = <<>> THEN <<>>
  ELSE <<[graph_id |-> g, task_id |-> Head(list).task_id, name |-> Head(list).name,
          status |-> OrPending(Head(list).status),
          description |-> OrNull(Head(list).description)]>>
       \o RowsOfTasks(g, Tail(list))

RECURSIVE RowsOfDependencies(_, _)
RowsOfDependencies(g, deps) ==
  IF deps = <<>> THEN <<>>
  ELSE <<[graph_id |-> g, task_id |-> Head(deps).task_id,
          depends_on_task_id |-> Head(deps).depends_on_task_id]>>
       \o RowsOfDependencies(g, Tail(deps))

\* db.delete(table).where(eq(table.graph_id, g))
RECURSIVE DeleteRows(_, _)
\* DeleteRows stopping at the first row of the graph
DeleteRowsFirstOnly(rows, g) ==
  IF rows = <<>> THEN <<>>
  ELSE IF Head(rows).graph_id = g THEN Tail(rows)
       ELSE <<Head(rows)>> \o DeleteRows(Tail(rows), g)

DeleteRows(rows, g) ==
  IF rows = <<>> THEN <<>>
  ELSE IF Head(rows).graph_id = g THEN DeleteRows(Tail(rows), g)
       ELSE <<Head(rows)>> \o DeleteRows(Tail(rows), g)

\* the Task / Dependency objects createGraph and getGraphDetails build from rows
RECURSIVE TaskObjects(_)
TaskObjects(rows) ==
  IF rows = <<>> THEN <<>>
  ELSE <<[task_id |-> Head(rows).task_id, name |-> Head(rows).name,
          status |-> Head(rows).status, description |-> Head(rows).description]>>
       \o TaskObjects(Tail(rows))

RECURSIVE DependencyObjects(_)
DependencyObjects(rows) ==
  IF rows = <<>> THEN <<>>
  ELSE <<[task_id |-> Head(rows).task_id,
          depends_on_task_id |-> Head(rows).depends_on_task_id]>>
       \o DependencyObjects(Tail(rows))

\* the row of graph id in a graphs table
GraphOf(table, id) ==
  [id |-> id, name |-> table[id].name, description |-> table[id].description,
   graph_data |-> table[id].graph_data]

Nothing == [kind |-> "nothing"]

\* a call (op and its inputs) and its outcome; description, task_id and returned
\* are filled in by the handlers that take or return them
Response(op, id, name, list, outcome, analysis) ==
  [op |-> op, id |-> id, name |-> name, tasks |-> list,
   outcome |-> outcome, analysis |-> analysis,
   description |-> Undefined, task_id |-> Undefined, returned |-> Nothing]

\* GraphWithDetails: {graph, tasks, dependencies, analysis}
GraphWithDetails(r, graph, ts, ds) ==
  [r EXCEPT !.returned = [graph |-> graph, tasks |-> ts, dependencies |-> ds]]

\* graph_data: JSON.stringify(input.tasks) in createGraph (an array: no analysis),
\* JSON.stringify({tasks, analysis}) in updateGraph
ArrayData(list) == [tasks |-> list, analysis |-> NoAnalysis]
ObjectData(list, analysis) == [tasks |-> list, analysis |-> analysis]

\* parsedAnalysis taking an empty topological_order for a missing one
parsedAnalysisEmptyIsMissing(graph_data) ==
  IF graph_data.analysis.present
  THEN [graph_data.analysis EXCEPT
          !.topological_order = IF @.order = <<>> THEN Null ELSE @]
  ELSE Analysis(FALSE, <<>>, Null, EmptyLevels)

\* parsedData.analysis?.x || default, field by field
parsedAnalysis(graph_data) ==
  IF graph_data.analysis.present THEN graph_data.analysis
  ELSE Analysis(FALSE, <<>>, Null, EmptyLevels)

HasDuplicate(ids) == Len(ids) # Cardinality(Range(ids))

\* HasUnknownReference looking only at the first dependency of each task
HasUnknownReferenceFirstOnly(list) ==
  \E i \in 1..Len(list) :
    /\ Len(list[i].dependencies) > 0
    /\ list[i].dependencies[1] \notin Range(TaskIdsOf(list))

\* some dependency of some task is no task_id of the list
HasUnknownReference(list) ==
  \E i \in 1..Len(list) : \E j \in 1..Len(list[i].dependencies) :
    list[i].dependencies[j] \notin Range(TaskIdsOf(list))

\* the valid lists of MaxTasks distinct tasks and exactly MaxDenseEdges dependencies
DenseLists ==
  {l \in ListsOf(MaxTasks, MaxDenseEdges, 0) :
     /\ ~HasDuplicate(TaskIdsOf(l))
     /\ ~HasUnknownReference(l)
     /\ Len(allDependencies(l)) = MaxDenseEdges}

\* the diamond a, b -> a, c -> a, d -> b and d -> c, declared in this order
DiamondTask(task_id, deps) ==
  [task_id |-> task_id, name |-> "t", status |-> "pending",
   description |-> Undefined, dependencies |-> deps]
Diamond ==
  <<DiamondTask("a", <<>>), DiamondTask("b", <<"a">>), DiamondTask("c", <<"a">>),
    DiamondTask("d", <<"b", "c">>)>>

\* One behaviour serves the clients of one pool: the task lists, graph names and
\* graph descriptions they submit and the number of graphs they create. The size
\* of the lists is traded against the number of graphs and the variety of the
\* other fields.
Pool(lists, names, descriptions, maxGraphs) ==
  [tasks |-> lists, names |-> names, descriptions |-> descriptions,
   maxGraphs |-> maxGraphs]
Pools ==
  {Pool({<<>>, l}, {"n1"}, {}, MaxGraphs) :
     l \in TaskLists \cup DenseLists \cup {Diamond}}
  \cup
  {Pool({<<>>, Decorate(l, d)}, {"n1"}, {}, MaxStoreGraphs) :
     l \in StoreLists, d \in DetailSeqs}
  \cup
  {Pool({<<>>, l}, Names, Descriptions, MaxGraphs) : l \in StoreLists}

NoRun == [phase |-> "idle"]

Init ==
  /\ graphs = EmptyMap
  /\ tasks = <<>>
  /\ dependencies = <<>>
  /\ nextId = 1
  /\ result = Response("none", 0, Undefined, NoTasks, "none", NoAnalysis)
  /\ pool \in Pools
  /\ run = NoRun

\* the call createGraph(input) and what it throws
CreateThrows(name, description, list, error) ==
  [Response("createGraph", 0, name, Tasks(list), error, NoAnalysis)
     EXCEPT !.description = description]

\* the rows createGraph inserts and the GraphWithDetails it returns; the serial
\* stops at the number of graphs the pool creates
CreateStores(name, description, list) ==
  LET row == [name |-> name, description |-> OrNull(description),
              graph_data |-> ArrayData(list)]
      taskRows == RowsOfTasks(nextId, list)
      dependencyRows == RowsOfDependencies(nextId, allDependencies(list))
  IN /\ nextId <= pool.maxGraphs
     /\ graphs' = Put(graphs, nextId, row)
     /\ nextId' = nextId + 1
     /\ tasks' = tasks \o taskRows
     /\ dependencies' = dependencies \o dependencyRows
     /\ result' = GraphWithDetails(
                    [Response("createGraph", nextId, name, Tasks(list), "ok",
                              createAnalysis(list))
                       EXCEPT !.description = description],
                    GraphOf(graphs', nextId), TaskObjects(taskRows),
                    DependencyObjects(dependencyRows))

\* createGraph validating the references before the uniqueness of the ids
createGraphReferencesFirst(name, description, list) ==
  IF HasUnknownReference(list)
  THEN /\ result' = CreateThrows(name, description, list, "UnknownTaskReference")
       /\ UNCHANGED store
  ELSE IF HasDuplicate(TaskIdsOf(list))
  THEN /\ result' = CreateThrows(name, description, list, "DuplicateTaskID")
       /\ UNCHANGED store
  ELSE CreateStores(name, description, list)

\* createGraph inserting the graph row before it validates the references
createGraphInsertFirst(name, description, list) ==
  IF HasDuplicate(TaskIdsOf(list))
  THEN /\ result' = CreateThrows(name, description, list, "DuplicateTaskID")
       /\ UNCHANGED store
  ELSE IF HasUnknownReference(list)
  THEN /\ nextId <= pool.maxGraphs
       /\ graphs' = Put(graphs, nextId,
                        [name |-> name, description |-> OrNull(description),
                         graph_data |-> ArrayData(list)])
       /\ nextId' = nextId + 1
       /\ UNCHANGED <<tasks, dependencies>>
       /\ result' = CreateThrows(name, description, list, "UnknownTaskReference")
  ELSE CreateStores(name, description, list)

createGraph(name, description, list) ==
  IF HasDuplicate(TaskIdsOf(list))
  THEN /\ result' = CreateThrows(name, description, list, "DuplicateTaskID")
       /\ UNCHANGED store
  ELSE IF HasUnknownReference(list)
  THEN /\ result' = CreateThrows(name, description, list, "UnknownTaskReference")
       /\ UNCHANGED store
  ELSE CreateStores(name, description, list)

\* updateGraph replacing the tasks by input.tasks || []: a call without a task list
\* empties the graph
updateGraphTasksOrEmpty(id, name, description, given) ==
  LET call == [Response("updateGraph", id, name, given, "ok", NoAnalysis)
                 EXCEPT !.description = description]
  IN
  IF ~Has(graphs, id)
  THEN /\ result' = [call EXCEPT !.outcome = "null"]
       /\ UNCHANGED store
  ELSE LET updated ==
             IF name # Undefined \/ description # Undefined
             THEN Put(graphs, id,
                      [graphs[id] EXCEPT
                         !.name = IF name # Undefined THEN name ELSE @,
                         !.description = IF description # Undefined
                                         THEN description ELSE @])
             ELSE graphs
           list == given.list
       IN IF HasUnknownReference(list)
          THEN /\ graphs' = updated
               /\ tasks' = DeleteRows(tasks, id)
               /\ dependencies' = DeleteRows(dependencies, id)
               /\ UNCHANGED nextId
               /\ result' = [call EXCEPT !.outcome = "UnknownTaskReference"]
          ELSE LET data == ObjectData(list, updateAnalysis(list))
               IN /\ graphs' = Put(updated, id, [updated[id] EXCEPT !.graph_data = data])
                  /\ tasks' = DeleteRows(tasks, id) \o RowsOfTasks(id, list)
                  /\ dependencies' = DeleteRows(dependencies, id)
                                       \o RowsOfDependencies(id, allDependencies(list))
                  /\ UNCHANGED nextId
                  /\ result' = GraphWithDetails(
                                 [call EXCEPT !.analysis = parsedAnalysis(data)],
                                 GraphOf(graphs', id), SelectRows(tasks', id),
                                 SelectRows(dependencies', id))

\* name, description and given = Undefined / NoTasks stand for fields left out of
\* the input
updateGraph(id, name, description, given) ==
  LET call == [Response("updateGraph", id, name, given, "ok", NoAnalysis)
                 EXCEPT !.description = description]
  IN
  IF ~Has(graphs, id)
  THEN /\ result' = [call EXCEPT !.outcome = "null"]
       /\ UNCHANGED store
  ELSE LET updated ==
             IF name # Undefined \/ description # Undefined
             THEN Put(graphs, id,
                      [graphs[id] EXCEPT
                         !.name = IF name # Undefined THEN name ELSE @,
                         !.description = IF description # Undefined
                                         THEN description ELSE @])
             ELSE graphs
           list == given.list
       IN IF ~given.given
          THEN /\ graphs' = updated
               /\ UNCHANGED <<tasks, dependencies, nextId>>
               /\ result' = GraphWithDetails(
                              [call EXCEPT !.analysis =
                                 parsedAnalysis(updated[id].graph_data)],
                              GraphOf(updated, id), SelectRows(tasks, id),
                              SelectRows(dependencies, id))
          ELSE IF HasUnknownReference(list)
          THEN /\ graphs' = updated
               /\ tasks' = DeleteRows(tasks, id)
               /\ dependencies' = DeleteRows(dependencies, id)
               /\ UNCHANGED nextId
               /\ result' = [call EXCEPT !.outcome = "UnknownTaskReference"]
          ELSE LET data == ObjectData(list, updateAnalysis(list))
               IN /\ graphs' = Put(updated, id, [updated[id] EXCEPT !.graph_data = data])
                  /\ tasks' = DeleteRows(tasks, id) \o RowsOfTasks(id, list)
                  /\ dependencies' = DeleteRows(dependencies, id)
                                       \o RowsOfDependencies(id, allDependencies(list))
                  /\ UNCHANGED nextId
                  /\ result' = GraphWithDetails(
                                 [call EXCEPT !.analysis = parsedAnalysis(data)],
                                 GraphOf(graphs', id), SelectRows(tasks', id),
                                 SelectRows(dependencies', id))

\* deleteGraph removing the rows of the task ids of the graph in every graph
deleteGraphByTaskId(id) ==
  LET gone == {tasks[i].task_id : i \in {k \in 1..Len(tasks) : tasks[k].graph_id = id}}
      Keep(rows) == SelectSeq(rows, LAMBDA r : r.task_id \notin gone)
  IN /\ graphs' = [g \in (DOMAIN graphs) \ {id} |-> graphs[g]]
     /\ tasks' = Keep(DeleteRows(tasks, id))
     /\ dependencies' = Keep(DeleteRows(dependencies, id))
     /\ UNCHANGED nextId
     /\ result' = Response("deleteGraph", id, Undefined, NoTasks,
                           IF Has(graphs, id) THEN "true" ELSE "false", NoAnalysis)

\* the delete of the graph row cascades to its task and dependency rows
deleteGraph(id) ==
  /\ graphs' = [g \in (DOMAIN graphs) \ {id} |-> graphs[g]]
  /\ tasks' = DeleteRows(tasks, id)
  /\ dependencies' = DeleteRows(dependencies, id)
  /\ UNCHANGED nextId
  /\ result' = Response("deleteGraph", id, Undefined, NoTasks,
                        IF Has(graphs, id) THEN "true" ELSE "false", NoAnalysis)

analyzeGraphHandler(id) ==
  /\ UNCHANGED store
  /\ result' = IF ~Has(graphs, id)
               THEN Response("analyzeGraph", id, Undefined, NoTasks, "null", NoAnalysis)
               ELSE Response("analyzeGraph", id, Undefined, NoTasks, "ok",
                             analyzeGraph(SelectRows(tasks, id),
                                          SelectRows(dependencies, id)))

\* getGraphDetails caching the analysis it computed in graph_data
getGraphDetailsCaching(id) ==
  LET ts == SelectRows(tasks, id)
      ds == SelectRows(dependencies, id)
      analysis == detailsAnalyzeGraph(ts, ds)
  IN IF ~Has(graphs, id)
     THEN /\ UNCHANGED store
          /\ result' = Response("getGraphDetails", id, Undefined, NoTasks, "null",
                                NoAnalysis)
     ELSE /\ graphs' = Put(graphs, id,
                           [graphs[id] EXCEPT !.graph_data.analysis = analysis])
          /\ UNCHANGED <<tasks, dependencies, nextId>>
          /\ result' = GraphWithDetails(
                         Response("getGraphDetails", id, Undefined, NoTasks, "ok",
                                  analysis),
                         GraphOf(graphs', id), TaskObjects(ts), DependencyObjects(ds))

getGraphDetails(id) ==
  /\ UNCHANGED store
  /\ result' = IF ~Has(graphs, id)
               THEN Response("getGraphDetails", id, Undefined, NoTasks, "null", NoAnalysis)
               ELSE GraphWithDetails(
                      Response("getGraphDetails", id, Undefined, NoTasks, "ok",
                               detailsAnalyzeGraph(SelectRows(tasks, id),
                                                   SelectRows(dependencies, id))),
                      GraphOf(graphs, id), TaskObjects(SelectRows(tasks, id)),
                      DependencyObjects(SelectRows(dependencies, id)))

\* rows.filter(row => row[field] = value)
RECURSIVE Where(_, _, _)
Where(rows, field, value) ==
  IF rows = <<>> THEN <<>>
  ELSE (IF Head(rows)[field] = value THEN <<Head(rows)>> ELSE <<>>)
       \o Where(Tail(rows), field, value)

\* from(dependenciesTable).innerJoin(tasksTable, dep[field] = task.task_id and
\* dep.graph_id = task.graph_id): the task rows joined to the dependency rows deps
RECURSIVE JoinTasks(_, _)
\* JoinTasks joining on task_id alone, whatever the graph of the task row
JoinTasksAnyGraph(deps, field) ==
  IF deps = <<>> THEN <<>>
  ELSE Where(tasks, "task_id", Head(deps)[field]) \o JoinTasks(Tail(deps), field)

JoinTasks(deps, field) ==
  IF deps = <<>> THEN <<>>
  ELSE Where(SelectRows(tasks, Head(deps).graph_id), "task_id", Head(deps)[field])
       \o JoinTasks(Tail(deps), field)

getTaskDetails(graphId, taskId) ==
  LET call == [Response("getTaskDetails", graphId, Undefined, NoTasks, "ok", NoAnalysis)
                 EXCEPT !.task_id = taskId]
      taskResult == Where(SelectRows(tasks, graphId), "task_id", taskId)
      edges == SelectRows(dependencies, graphId)
  IN /\ UNCHANGED store
     /\ result' =
          IF Len(taskResult) = 0 THEN [call EXCEPT !.outcome = "null"]
          ELSE [call EXCEPT !.returned =
                  [task |-> taskResult[1],
                   dependencies |-> JoinTasks(Where(edges, "task_id", taskId),
                                              "depends_on_task_id"),
                   dependents |-> JoinTasks(Where(edges, "depends_on_task_id", taskId),
                                            "task_id")]]

\* the rows of graphsTable from serial id on
RECURSIVE GraphRows(_)
GraphRows(id) ==
  IF id >= nextId THEN <<>>
  ELSE (IF Has(graphs, id) THEN <<GraphOf(graphs, id)>> ELSE <<>>) \o GraphRows(id + 1)

getGraphs ==
  /\ UNCHANGED store
  /\ result' = [Response("getGraphs", 0, Undefined, NoTasks, "ok", NoAnalysis)
                  EXCEPT !.returned = [graphs |-> GraphRows(1)]]

\* the graph ids the clients ask for: every id the serial can reach
GraphIds == 1..pool.maxGraphs

\* createGraph's input has passed createGraphInputSchema, where status defaults
\* to 'pending'
CreateGraph ==
  /\ \E name \in pool.names : \E description \in pool.descriptions \cup {NullValue} :
       \E list \in {l \in pool.tasks : \A i \in 1..Len(l) : l[i].status # Undefined} :
         createGraph(name, description, list)
  /\ UNCHANGED <<pool, run>>
UpdateGraph ==
  /\ \E id \in GraphIds : \E name \in pool.names \cup {Undefined} :
       \E description \in pool.descriptions \cup {Undefined} :
         \E given \in {Tasks(l) : l \in pool.tasks} \cup {NoTasks} :
           updateGraph(id, name, description, given)
  /\ UNCHANGED <<pool, run>>
DeleteGraph ==
  /\ \E id \in GraphIds : deleteGraph(id)
  /\ UNCHANGED <<pool, run>>
AnalyzeGraph ==
  /\ \E id \in GraphIds : analyzeGraphHandler(id)
  /\ UNCHANGED <<pool, run>>
GetGraphDetails ==
  /\ \E id \in GraphIds : getGraphDetails(id)
  /\ UNCHANGED <<pool, run>>
GetTaskDetails ==
  /\ \E graphId \in GraphIds : \E taskId \in TaskIds : getTaskDetails(graphId, taskId)
  /\ UNCHANGED <<pool, run>>
GetGraphs ==
  /\ getGraphs
  /\ UNCHANGED <<pool, run>>

Next ==
  \/ CreateGraph
  \/ UpdateGraph
  \/ DeleteGraph
  \/ AnalyzeGraph
  \/ GetGraphDetails
  \/ GetTaskDetails
  \/ GetGraphs

Spec == Init /\ [][Next]_vars

\* ------------------------------------------------------------------ one analysis, step by step
\* The analyses of one stored graph with every call, loop iteration and return as
\* a step of its own: the search of analyzeGraph, its Kahn loop (when the search
\* found no cycle), then calculateTaskLevels of createGraph, which runs on cyclic
\* graphs too.

\* the task lists createGraph accepts
ValidLists ==
  {l \in TaskLists \cup DenseLists \cup {Diamond} :
     ~HasDuplicate(TaskIdsOf(l)) /\ ~HasUnknownReference(l)}

\* the state before allTaskIds.forEach(taskId => ...) of analyzeGraph
StartRun(ts, ds, list) ==
  LET ids == InsertionOrder(TaskIdsOf(ts))
  IN [phase |-> "search", ids |-> ids,
      adjacencyList |-> analyzeAdjacency(TaskIdsOf(ts), ds),
      color |-> InitMap(ids, "white"), cycles |-> <<>>, currentPath |-> <<>>,
      stack |-> <<>>, root |-> 1, entered |-> InitMap(ids, 0),
      inDegree |-> analyzeInDegree(ids, ds), queue |-> <<>>, order |-> <<>>,
      dependsOnMap |-> createDependsOnMap(list), levels |-> EmptyMap,
      visited |-> {}, calls |-> <<>>, levelRoot |-> 1,
      levelled |-> InitMap(ids, 0)]

\* the store after createGraph of a valid list, the analysis about to run
AnalysisInit ==
  \E l \in ValidLists :
    LET taskRows == RowsOfTasks(1, l)
        dependencyRows == RowsOfDependencies(1, allDependencies(l))
    IN /\ pool = Pool({<<>>, l}, {"n1"}, {}, MaxGraphs)
       /\ graphs = Put(EmptyMap, 1, [name |-> "n1", description |-> NullValue,
                                     graph_data |-> ArrayData(l)])
       /\ nextId = 2
       /\ tasks = taskRows
       /\ dependencies = dependencyRows
       /\ result = GraphWithDetails(
                     [Response("createGraph", 1, "n1", Tasks(l), "ok",
                               createAnalysis(l))
                        EXCEPT !.description = NullValue],
                     GraphOf(graphs, 1), TaskObjects(taskRows),
                     DependencyObjects(dependencyRows))
       /\ run = StartRun(taskRows, dependencyRows, l)

\* dfsForCycles(node) up to its loop: the node turns gray and joins the path
EnterNode(r, node) ==
  [r EXCEPT !.color = Put(@, node, "gray"),
            !.currentPath = Append(@, node),
            !.stack = Append(@, [node |-> node, i |-> 1]),
            !.entered = Put(@, node, Get(@, node, 0) + 1)]

\* SearchRoot entering the task whatever its colour
SearchRootAnyColor ==
  /\ run.phase = "search" /\ run.stack = <<>> /\ run.root <= Len(run.ids)
  /\ run' = EnterNode([run EXCEPT !.root = @ + 1], run.ids[run.root])
  /\ UNCHANGED <<store, result, pool>>

\* allTaskIds.forEach(taskId => if white then dfsForCycles(taskId)): one task
SearchRoot ==
  /\ run.phase = "search" /\ run.stack = <<>> /\ run.root <= Len(run.ids)
  /\ LET next == [run EXCEPT !.root = @ + 1]
     IN run' = IF Get(run.color, run.ids[run.root], "none") = "white"
               THEN EnterNode(next, run.ids[run.root]) ELSE next
  /\ UNCHANGED <<store, result, pool>>

\* for (const neighbor of neighbors): one neighbour of the node on top
SearchNeighbor ==
  /\ run.phase = "search" /\ run.stack # <<>>
  /\ LET top == run.stack[Len(run.stack)]
         neighbors == Get(run.adjacencyList, top.node, <<>>)
     IN /\ top.i <= Len(neighbors)
        /\ LET neighbor == neighbors[top.i]
               c == Get(run.color, neighbor, "none")
               next == [run EXCEPT !.stack[Len(run.stack)].i = @ + 1]
           IN run' =
                IF c = "gray"
                THEN [next EXCEPT !.cycles =
                        Append(@, Append(Slice(run.currentPath,
                                               IndexOf(run.currentPath, neighbor)),
                                         neighbor))]
                ELSE IF c = "white" THEN EnterNode(next, neighbor)
                ELSE next
  /\ UNCHANGED <<store, result, pool>>

\* the end of dfsForCycles(node): the node leaves the path and turns black
SearchReturn ==
  /\ run.phase = "search" /\ run.stack # <<>>
  /\ LET top == run.stack[Len(run.stack)]
     IN /\ top.i > Len(Get(run.adjacencyList, top.node, <<>>))
        /\ run' = [run EXCEPT !.stack = SubSeq(@, 1, Len(@) - 1),
                              !.currentPath = SubSeq(@, 1, Len(@) - 1),
                              !.color = Put(@, top.node, "black")]
  /\ UNCHANGED <<store, result, pool>>

\* hasCycles = cycles.length > 0; if (!hasCycles) the queue takes the tasks of
\* in-degree zero
SearchEnd ==
  /\ run.phase = "search" /\ run.stack = <<>> /\ run.root > Len(run.ids)
  /\ run' = IF Len(run.cycles) > 0 THEN [run EXCEPT !.phase = "levels"]
            ELSE [run EXCEPT !.phase = "order",
                             !.queue = ZeroDegree(run.ids, run.inDegree)]
  /\ UNCHANGED <<store, result, pool>>

\* one iteration of while (queue.length > 0)
OrderStep ==
  /\ run.phase = "order" /\ run.queue # <<>>
  /\ LET current == Head(run.queue)
         st == analyzeKahnNeighbors(Get(run.adjacencyList, current, <<>>), 1,
                 [inDegree |-> run.inDegree, queue |-> Tail(run.queue)])
     IN run' = [run EXCEPT !.inDegree = st.inDegree, !.queue = st.queue,
                           !.order = Append(@, current)]
  /\ UNCHANGED <<store, result, pool>>

OrderEnd ==
  /\ run.phase = "order" /\ run.queue = <<>>
  /\ run' = [run EXCEPT !.phase = "levels"]
  /\ UNCHANGED <<store, result, pool>>

\* a value calculateLevel returns reaches its caller: the frame on top of calls
\* keeps the largest and moves to its next dependency (the forEach drops it)
ReturnLevel(r, level) ==
  IF r.calls = <<>> THEN r
  ELSE [r EXCEPT !.calls[Len(r.calls)] =
                   [@ EXCEPT !.maxDepLevel = Max(@, level), !.i = @ + 1]]

\* calculateLevel(task) up to its first recursive call
CallLevel(r, task) ==
  IF Has(r.levels, task) THEN ReturnLevel(r, r.levels[task])
  ELSE IF task \in r.visited THEN ReturnLevel(r, 0)
  ELSE LET counted == [r EXCEPT !.levelled = Put(@, task, Get(@, task, 0) + 1)]
       IN IF Len(Get(r.dependsOnMap, task, <<>>)) = 0
          THEN ReturnLevel([counted EXCEPT !.levels = Put(@, task, 0)], 0)
          ELSE [counted EXCEPT !.visited = @ \cup {task},
                               !.calls = Append(@, [task |-> task, i |-> 1,
                                                    maxDepLevel |-> 0])]

\* tasks.forEach(task => calculateLevel(task)): one task
LevelRoot ==
  /\ run.phase = "levels" /\ run.calls = <<>> /\ run.levelRoot <= Len(run.ids)
  /\ run' = CallLevel([run EXCEPT !.levelRoot = @ + 1], run.ids[run.levelRoot])
  /\ UNCHANGED <<store, result, pool>>

\* deps.map(dep => calculateLevel(dep)): one dependency of the task on top
LevelDependency ==
  /\ run.phase = "levels" /\ run.calls # <<>>
  /\ LET top == run.calls[Len(run.calls)]
         deps == Get(run.dependsOnMap, top.task, <<>>)
     IN /\ top.i <= Len(deps)
        /\ run' = CallLevel(run, deps[top.i])
  /\ UNCHANGED <<store, result, pool>>

\* levels[task] = maxDepLevel + 1; visited.delete(task); return levels[task]
LevelReturn ==
  /\ run.phase = "levels" /\ run.calls # <<>>
  /\ LET top == run.calls[Len(run.calls)]
         level == top.maxDepLevel + 1
     IN /\ top.i > Len(Get(run.dependsOnMap, top.task, <<>>))
        /\ run' = ReturnLevel([run EXCEPT !.levels = Put(@, top.task, level),
                                          !.visited = @ \ {top.task},
                                          !.calls = SubSeq(@, 1, Len(@) - 1)],
                              level)
  /\ UNCHANGED <<store, result, pool>>

LevelsEnd ==
  /\ run.phase = "levels" /\ run.calls = <<>> /\ run.levelRoot > Len(run.ids)
  /\ run' = [run EXCEPT !.phase = "done"]
  /\ UNCHANGED <<store, result, pool>>

AnalysisNext ==
  \/ SearchRoot
  \/ SearchNeighbor
  \/ SearchReturn
  \/ SearchEnd
  \/ OrderStep
  \/ OrderEnd
  \/ LevelRoot
  \/ LevelDependency
  \/ LevelReturn
  \/ LevelsEnd

\* the handler runs the analysis to its end: a step that can be taken is taken
AnalysisSpec == AnalysisInit /\ [][AnalysisNext]_vars /\ WF_vars(AnalysisNext)

\* ------------------------------------------------------------------ the graph a result is about
Errors == {"DuplicateTaskID", "UnknownTaskReference"}

\* the declared tasks and the edges <<dependent, prerequisite>> stored for graph g
StoredTaskIds(g) == {tasks[i].task_id : i \in {k \in 1..Len(tasks) : tasks[k].graph_id = g}}
StoredEdges(g) ==
  {<<dependencies[i].task_id, dependencies[i].depends_on_task_id>> :
     i \in {k \in 1..Len(dependencies) : dependencies[k].graph_id = g}}
StoredTaskCount(g) == Cardinality({k \in 1..Len(tasks) : tasks[k].graph_id = g})

UniqueTaskIds(g) == StoredTaskCount(g) = Cardinality(StoredTaskIds(g))
EndpointsDeclared(g) ==
  \A e \in StoredEdges(g) : e[1] \in StoredTaskIds(g) /\ e[2] \in StoredTaskIds(g)

\* pairs joined by a chain of at most n + 1 edges of E
RECURSIVE Chains(_, _)
Chains(E, n) ==
  IF n = 0 THEN E
  ELSE LET C == Chains(E, n - 1)
       IN C \cup {<<p[1][1], p[2][2]>> : p \in {q \in C \X E : q[1][2] = q[2][1]}}

\* the graph contains a directed cycle (a self-dependency included)
HasDirectedCycle(E) == \E e \in Chains(E, Cardinality(E)) : e[1] = e[2]

Prerequisites(t, E) == {e[2] : e \in {f \in E : f[1] = t}}

SetMax(S) == CHOOSE x \in S : \A y \in S : y <= x

\* the length of the longest prerequisite chain ending at t, for acyclic E
RECURSIVE LongestChain(_, _)
LongestChain(t, E) ==
  IF Prerequisites(t, E) = {} THEN 0
  ELSE 1 + SetMax({LongestChain(p, E) : p \in Prerequisites(t, E)})

Analysed == result.outcome = "ok" /\ result.analysis.present
Computed ==
  /\ Analysed
  /\ \/ result.op \in {"analyzeGraph", "getGraphDetails", "createGraph"}
     \/ result.op = "updateGraph" /\ result.tasks.given

\* s lists every member of S exactly once
IsPermutation(s, S) == Range(s) = S /\ Len(s) = Cardinality(S)

IsTopologicalOrder(s, S, E) ==
  /\ IsPermutation(s, S)
  /\ \A e \in E : IndexOf(s, e[2]) < IndexOf(s, e[1])

\* ------------------------------------------------------------------ claims
AcyclicStored(g) ==
  UniqueTaskIds(g) /\ EndpointsDeclared(g) /\ ~HasDirectedCycle(StoredEdges(g))

OrderIsValid ==
  /\ ~result.analysis.topological_order.isNull
  /\ IsTopologicalOrder(result.analysis.topological_order.order,
                        StoredTaskIds(result.id), StoredEdges(result.id))

\* C1: for every acyclic graph the topological_order returned by analyzeGraph,
\* getGraphDetails, createGraph and updateGraph lists every task exactly once and
\* every prerequisite before its dependents.
C1_TopologicalOrderValid ==
  (Analysed /\ AcyclicStored(result.id)) => OrderIsValid

\* The order is valid whenever the call computed it (updateGraph: from a task list).
ComputedOrderValid ==
  (Computed /\ AcyclicStored(result.id)) => OrderIsValid

\* C2: has_cycles is true exactly when the graph contains a directed cycle.
C2_HasCyclesExact ==
  (Computed /\ EndpointsDeclared(result.id))
    => (result.analysis.has_cycles <=> HasDirectedCycle(StoredEdges(result.id)))

C2_Witness ==
  /\ Computed
  /\ result.op = "createGraph"
  /\ result.analysis.has_cycles
  /\ Cardinality(StoredTaskIds(result.id)) = 3
  /\ Cardinality(StoredEdges(result.id)) = 3
  /\ \A e \in StoredEdges(result.id) : e[1] # e[2]

\* C3: for analyzeGraph and getGraphDetails has_cycles is true exactly when
\* topological_order is null and (for a graph with a task) task_levels is empty;
\* without cycles task_levels has an entry per task.
C3_AnalysisShape ==
  (Analysed /\ result.op \in {"analyzeGraph", "getGraphDetails"})
    => LET a == result.analysis
           S == StoredTaskIds(result.id)
       IN /\ a.has_cycles <=> a.topological_order.isNull
          /\ S # {} => (a.has_cycles <=> DOMAIN a.task_levels = {})
          /\ a.has_cycles => DOMAIN a.task_levels = {}
          /\ ~a.has_cycles => DOMAIN a.task_levels = S

C3_Witness ==
  /\ Analysed
  /\ result.op = "getGraphDetails"
  /\ ~result.analysis.has_cycles
  /\ Cardinality(StoredTaskIds(result.id)) = 3
  /\ StoredEdges(result.id) = {}

\* C4: the analysis of createGraph and of updateGraph called with a task list has
\* a null topological_order and empty task_levels whenever has_cycles is true.
C4_CyclicMeansAbsent ==
  (Computed /\ result.op \in {"createGraph", "updateGraph"}
     /\ result.analysis.has_cycles)
    => /\ result.analysis.topological_order.isNull
       /\ DOMAIN result.analysis.task_levels = {}

\* C5: for every acyclic graph task_levels has one entry per declared task: 0
\* without prerequisites, else 1 + the largest level of its prerequisites.
C5_LevelsAreLongestChains ==
  (Computed /\ EndpointsDeclared(result.id)
     /\ ~HasDirectedCycle(StoredEdges(result.id)))
    => /\ DOMAIN result.analysis.task_levels = StoredTaskIds(result.id)
       /\ \A t \in StoredTaskIds(result.id) :
            result.analysis.task_levels[t] = LongestChain(t, StoredEdges(result.id))

C5_Witness ==
  /\ Computed
  /\ result.op = "updateGraph"
  /\ ~result.analysis.has_cycles
  /\ \E t \in StoredTaskIds(result.id) :
       /\ result.analysis.task_levels[t] = 2
       /\ Cardinality(Prerequisites(t, StoredEdges(result.id))) = 2

\* some task_id appears more than once in the submitted list
RepeatsTaskId(list) ==
  \E i, j \in 1..Len(list) : i # j /\ list[i].task_id = list[j].task_id

\* some task of the submitted list names a dependency that is no task of the list
NamesUndeclared(list) ==
  \E i \in 1..Len(list) : \E k \in 1..Len(list[i].dependencies) :
    \A j \in 1..Len(list) : list[j].task_id # list[i].dependencies[k]

\* C6: createGraph fails with the duplicate-task-id error whenever a task_id
\* appears more than once in the input, whatever the dependencies.
C6_DuplicateRejected ==
  (result.op = "createGraph" /\ RepeatsTaskId(result.tasks.list))
    => result.outcome = "DuplicateTaskID"

C6_Witness ==
  /\ result.op = "createGraph"
  /\ RepeatsTaskId(result.tasks.list)
  /\ NamesUndeclared(result.tasks.list)
  /\ result.outcome = "DuplicateTaskID"

\* C7: createGraph and updateGraph fail with the unknown-reference error whenever
\* a task of the supplied list names a dependency that is no task_id of the list.
C7_UnknownReferenceRejected ==
  (result.op \in {"createGraph", "updateGraph"} /\ result.tasks.given
     /\ NamesUndeclared(result.tasks.list))
    => result.outcome = "UnknownTaskReference"

\* C7 as amended: createGraph does so when the task ids of the list are unique
\* (a repeated id is reported first), updateGraph when the graph exists (for an
\* unknown graph id it returns null).
C7_UnknownReferenceRejectedUnlessEarlier ==
  (result.op \in {"createGraph", "updateGraph"} /\ result.tasks.given
     /\ NamesUndeclared(result.tasks.list))
    => /\ result.op = "createGraph"
            => result.outcome = IF RepeatsTaskId(result.tasks.list)
                                THEN "DuplicateTaskID" ELSE "UnknownTaskReference"
       /\ result.op = "updateGraph"
            => result.outcome \in {"UnknownTaskReference", "null"}
       /\ result.outcome = "null" => ~Has(graphs, result.id)

C7_Witness ==
  /\ result.op = "updateGraph"
  /\ result.tasks.given
  /\ NamesUndeclared(result.tasks.list)
  /\ result.outcome = "UnknownTaskReference"

\* C8: a createGraph call that fails validation returns no analysis and leaves
\* graphs, tasks and dependencies exactly as they were.
C8_RejectedCreateChangesNothing ==
  [][(result'.op = "createGraph" /\ result'.outcome \in Errors)
       => (UNCHANGED store /\ ~result'.analysis.present)]_vars

C8_Witness ==
  /\ result.op = "createGraph"
  /\ result.outcome = "UnknownTaskReference"
  /\ Has(graphs, 1)

\* C9: no two stored tasks of the same graph share a task_id.
C9_StoredTaskIdsUnique ==
  \A g \in DOMAIN graphs : UniqueTaskIds(g)

\* C10: a graph with zero tasks analyses to has_cycles = false, no cycles, an
\* empty (not null) topological_order and empty task_levels, in analyzeGraph,
\* getGraphDetails and updateGraph with tasks = [].
C10_EmptyGraph ==
  (Computed /\ result.op # "createGraph" /\ StoredTaskCount(result.id) = 0)
    => result.analysis = Analysis(FALSE, <<>>, Order(<<>>), EmptyLevels)

C10_Witness ==
  /\ Computed
  /\ result.op = "updateGraph"
  /\ result.tasks.list = <<>>
  /\ StoredTaskCount(result.id) = 0

\* ------------------------------------------------------------------ cycles
\* sequences of distinct members of S, of length 1 to Cardinality(S)
DistinctSeqs(S) ==
  {p \in SeqsUpTo(S, Cardinality(S)) :
     Len(p) > 0 /\ \A i, j \in 1..Len(p) : i # j => p[i] # p[j]}

\* the edges prerequisite -> dependent of the closed walk p[1], ..., p[n], p[1]
RingEdges(p) == {<<p[i], p[(i % Len(p)) + 1]>> : i \in 1..Len(p)}

\* the simple directed cycles of the graph stored for g, each as its set of edges
\* prerequisite -> dependent
SimpleCycles(g) ==
  {RingEdges(p) : p \in {q \in DistinctSeqs(StoredTaskIds(g)) :
                           \A e \in RingEdges(q) : <<e[2], e[1]>> \in StoredEdges(g)}}

\* the pairs of consecutive entries of a reported sequence
Steps(c) == {<<c[i], c[i + 1]>> : i \in 1..(Len(c) - 1)}
Reversed(P) == {<<e[2], e[1]>> : e \in P}

\* the reported sequence c walks once around the cycle R, in either direction
Traverses(c, R) ==
  /\ Len(c) = Cardinality(R) + 1
  /\ Steps(c) = R \/ Steps(c) = Reversed(R)

\* C11: for every simple directed cycle of the graph the cycles list of the
\* analysis contains a sequence that traverses exactly that cycle.
C11_EverySimpleCycleReported ==
  (Computed /\ UniqueTaskIds(result.id) /\ EndpointsDeclared(result.id))
    => \A R \in SimpleCycles(result.id) :
         \E i \in 1..Len(result.analysis.cycles) :
           Traverses(result.analysis.cycles[i], R)

\* c is a closed loop of the graph stored for g: it returns to its first entry,
\* repeats no other entry, and its steps all follow declared dependency edges,
\* all from prerequisite to dependent or all from dependent to prerequisite
ClosedLoop(c, g) ==
  /\ Len(c) >= 2
  /\ c[1] = c[Len(c)]
  /\ \A i, j \in 1..(Len(c) - 1) : i # j => c[i] # c[j]
  /\ \/ Reversed(Steps(c)) \subseteq StoredEdges(g)
     \/ Steps(c) \subseteq StoredEdges(g)

\* C12: every sequence in the cycles list has at least two entries, ends on its
\* first entry, repeats no other entry, and every pair of consecutive entries is
\* joined by a declared dependency edge.
C12_CyclesAreClosedLoops ==
  Computed => \A i \in 1..Len(result.analysis.cycles) :
                ClosedLoop(result.analysis.cycles[i], result.id)

\* a cycle found below the root of the search: the path before it is cut off
C12_Witness ==
  /\ Computed
  /\ result.op = "analyzeGraph"
  /\ result.analysis.cycles = <<<<"b", "c", "b">>>>
  /\ <<"b", "a">> \in StoredEdges(result.id)

\* C13: in every entry point cycle detection walks from prerequisite to dependent:
\* in each reported cycle every entry is a direct prerequisite of the entry that
\* follows it, so the cycles list is the one analyzeGraph computes for the stored
\* graph.
C13_CyclesWalkForward ==
  Computed =>
    /\ \A i \in 1..Len(result.analysis.cycles) :
         Reversed(Steps(result.analysis.cycles[i])) \subseteq StoredEdges(result.id)
    /\ result.analysis.cycles =
         analyzeGraph(SelectRows(tasks, result.id),
                      SelectRows(dependencies, result.id)).cycles

\* the graph stored for g is one ring: its tasks are distinct, each has exactly one
\* dependency row, and the dependencies form a single cycle through all of them
IsRing(g) ==
  /\ StoredTaskIds(g) # {}
  /\ UniqueTaskIds(g)
  /\ EndpointsDeclared(g)
  /\ Len(SelectRows(dependencies, g)) = Cardinality(StoredTaskIds(g))
  /\ \A t \in StoredTaskIds(g) : Cardinality(Prerequisites(t, StoredEdges(g))) = 1
  /\ \E R \in SimpleCycles(g) : Cardinality(R) = Cardinality(StoredTaskIds(g))

\* C14: for a graph that is a single ring of n >= 1 tasks has_cycles is true and
\* exactly one cycle is reported, with n + 1 entries that contain all n tasks,
\* whatever the declared task order.
C14_RingReportedOnce ==
  (Computed /\ IsRing(result.id))
    => /\ result.analysis.has_cycles
       /\ Len(result.analysis.cycles) = 1
       /\ Len(result.analysis.cycles[1]) = Cardinality(StoredTaskIds(result.id)) + 1
       /\ Range(result.analysis.cycles[1]) = StoredTaskIds(result.id)

\* a ring of three tasks declared against the direction of its dependencies
C14_Witness ==
  /\ Computed
  /\ result.op = "createGraph"
  /\ IsRing(result.id)
  /\ Cardinality(StoredTaskIds(result.id)) = 3
  /\ result.tasks.list[1].dependencies = <<"c">>

\* ------------------------------------------------------------------ the store
ReadOps == {"analyzeGraph", "getGraphDetails", "getTaskDetails", "getGraphs"}

\* C16: analyzeGraph, getGraphDetails, getTaskDetails and getGraphs are read-only:
\* when one of them returns, with a result or null, the stored graphs, tasks and
\* dependencies are exactly what they were before the call.
C16_ReadsChangeNothing ==
  [][result'.op \in ReadOps => UNCHANGED store]_vars

\* each of the four has returned from a store that holds tasks and dependencies
C16_Witness ==
  /\ result.op = "getTaskDetails"
  /\ result.outcome = "ok"
  /\ Len(result.returned.dependencies) > 0
  /\ Len(result.returned.dependents) > 0

\* graph g and its task and dependency rows are the same after the step
GraphUntouched(g) ==
  /\ Has(graphs', g)
  /\ graphs'[g] = graphs[g]
  /\ SelectRows(tasks', g) = SelectRows(tasks, g)
  /\ SelectRows(dependencies', g) = SelectRows(dependencies, g)

\* C17: deleteGraph(id) returns true exactly when a graph with that id was stored;
\* afterwards no graph, task or dependency with that graph id remains, and every
\* graph, task and dependency of every other graph is unchanged.
C17_DeleteRemovesOneGraph ==
  [][result'.op = "deleteGraph"
       => /\ result'.outcome = "true" <=> Has(graphs, result'.id)
          /\ result'.outcome \in {"true", "false"}
          /\ ~Has(graphs', result'.id)
          /\ SelectRows(tasks', result'.id) = <<>>
          /\ SelectRows(dependencies', result'.id) = <<>>
          /\ \A g \in (DOMAIN graphs) \ {result'.id} : GraphUntouched(g)
          /\ DOMAIN graphs' \subseteq DOMAIN graphs]_vars

\* graph 1 was deleted while graph 2 holds tasks (of the same task ids, the pool
\* has one list of tasks) and dependencies
C17_Witness ==
  /\ result.op = "deleteGraph"
  /\ result.id = 1
  /\ result.outcome = "true"
  /\ Has(graphs, 2)
  /\ SelectRows(tasks, 2) # <<>>
  /\ SelectRows(dependencies, 2) # <<>>

\* the row (or returned task) holds the submitted task: same task_id, name and
\* status ('pending' for a task submitted without status), the same description,
\* or null for a task submitted without description text (none, null or the empty
\* string)
StoresTask(task, row) ==
  /\ row.task_id = task.task_id
  /\ row.name = task.name
  /\ row.status = IF task.status = Undefined THEN "pending" ELSE task.status
  /\ \/ row.description = task.description
     \/ row.description = NullValue /\ task.description \in {Undefined, NullValue, ""}

TasksStored(list, rows) ==
  /\ Len(rows) = Len(list)
  /\ \A i \in 1..Len(list) : StoresTask(list[i], rows[i])

\* the positions <<task, dependency>> of the dependencies listed in a task list
Listed(list) ==
  UNION {{<<i, j>> : j \in 1..Len(list[i].dependencies)} : i \in 1..Len(list)}

\* one row per listed dependency, with the pair <<task_id, prerequisite>>
EdgesStored(list, rows) ==
  /\ Len(rows) = Cardinality(Listed(list))
  /\ \A t \in TaskIds, p \in TaskIds :
       Cardinality({k \in 1..Len(rows) :
                      rows[k].task_id = t /\ rows[k].depends_on_task_id = p})
         = Cardinality({x \in Listed(list) :
                          list[x[1]].task_id = t /\ list[x[1]].dependencies[x[2]] = p})

\* C18: after a successful createGraph(input) the store holds one new graph whose
\* tasks are exactly the input tasks (same task_id, name, status, description or
\* null) and whose dependencies are exactly the listed pairs, one row per listed
\* dependency; getGraphDetails of that graph returns those same tasks and edges.
C18_CreateStoresInput ==
  [][/\ (result'.op = "createGraph" /\ result'.outcome = "ok")
          => /\ ~Has(graphs, result'.id)
             /\ DOMAIN graphs' = DOMAIN graphs \cup {result'.id}
             /\ TasksStored(result'.tasks.list, SelectRows(tasks', result'.id))
             /\ EdgesStored(result'.tasks.list, SelectRows(dependencies', result'.id))
             /\ TasksStored(result'.tasks.list, result'.returned.tasks)
             /\ EdgesStored(result'.tasks.list, result'.returned.dependencies)
     /\ (result.op = "createGraph" /\ result.outcome = "ok"
           /\ result'.op = "getGraphDetails" /\ result'.id = result.id)
          => /\ result'.outcome = "ok"
             /\ TasksStored(result.tasks.list, result'.returned.tasks)
             /\ EdgesStored(result.tasks.list, result'.returned.dependencies)]_vars

\* a second graph, created from two tasks with their own names, statuses and
\* descriptions (one the empty string) and one dependency, has been read back
C18_Witness ==
  /\ result.op = "getGraphDetails"
  /\ result.outcome = "ok"
  /\ result.id = 2
  /\ ~graphs[2].graph_data.analysis.present
  /\ Len(result.returned.tasks) = 2
  /\ result.returned.tasks[1].status = "blocked"
  /\ result.returned.tasks[1].description = NullValue
  /\ graphs[2].graph_data.tasks[1].description = ""
  /\ result.returned.tasks[2].description = "d2"
  /\ Len(result.returned.dependencies) = 1

\* C19: updateGraph called with a task list replaces the graph's contents: when it
\* has returned, the stored tasks and dependencies of that graph are exactly those
\* of the new list, none of the previous ones remain, and the graphs, tasks and
\* dependencies of every other graph are unchanged.
C19_UpdateReplacesContents ==
  [][(result'.op = "updateGraph" /\ result'.tasks.given /\ result'.outcome = "ok")
       => /\ TasksStored(result'.tasks.list, SelectRows(tasks', result'.id))
          /\ EdgesStored(result'.tasks.list, SelectRows(dependencies', result'.id))
          /\ \A g \in (DOMAIN graphs) \ {result'.id} : GraphUntouched(g)
          /\ DOMAIN graphs' = DOMAIN graphs]_vars

\* an update with the empty list has left graph 1 without rows while graph 2
\* holds its two tasks and its dependency
C19_Witness ==
  /\ result.op = "updateGraph"
  /\ result.outcome = "ok"
  /\ result.id = 1
  /\ result.tasks = Tasks(<<>>)
  /\ SelectRows(tasks, 1) = <<>>
  /\ Has(graphs, 2)
  /\ Len(SelectRows(tasks, 2)) = 2
  /\ Len(SelectRows(dependencies, 2)) = 1
  /\ Len(graphs[1].graph_data.tasks) = 0
  /\ nextId = 3

\* C20: updateGraph called without a task list changes only the graph's name and
\* description: the stored tasks and dependencies are exactly what they were; and
\* updateGraph for an id that does not exist returns null and changes nothing.
C20_MetadataUpdateKeepsContents ==
  [][result'.op = "updateGraph"
       => /\ ~result'.tasks.given
               => /\ tasks' = tasks
                  /\ dependencies' = dependencies
                  /\ nextId' = nextId
                  /\ DOMAIN graphs' = DOMAIN graphs
                  /\ \A g \in DOMAIN graphs :
                       /\ graphs'[g].graph_data = graphs[g].graph_data
                       /\ g # result'.id => graphs'[g] = graphs[g]
                       /\ g = result'.id =>
                            /\ graphs'[g].name =
                                 IF result'.name = Undefined THEN graphs[g].name
                                 ELSE result'.name
                            /\ graphs'[g].description =
                                 IF result'.description = Undefined
                                 THEN graphs[g].description ELSE result'.description
          /\ ~Has(graphs, result'.id)
               => result'.outcome = "null" /\ UNCHANGED store
          /\ result'.outcome = "null" => ~Has(graphs, result'.id)]_vars

\* a graph with tasks and a dependency was given a new name and a new description
C20_Witness ==
  /\ result.op = "updateGraph"
  /\ result.outcome = "ok"
  /\ ~result.tasks.given
  /\ result.name = "n2"
  /\ result.description = "g1"
  /\ graphs[result.id].name = "n2"
  /\ graphs[result.id].description = "g1"
  /\ Len(SelectRows(tasks, result.id)) = 2
  /\ Len(SelectRows(dependencies, result.id)) = 1


\* ------------------------------------------------------------------ task details
\* the task rows stored for graph g
StoredTaskRows(g) == {tasks[i] : i \in {k \in 1..Len(tasks) : tasks[k].graph_id = g}}

\* C21: getTaskDetails(graphId, taskId) returns null when the graph has no task
\* with that task_id; otherwise its dependencies are exactly the tasks of that
\* graph the task directly depends on and its dependents exactly the tasks of that
\* graph that directly depend on it, and no row of another graph appears.
C21_TaskDetailsOfOneGraph ==
  result.op = "getTaskDetails"
    => LET g == result.id
           t == result.task_id
           rows == StoredTaskRows(g)
           E == StoredEdges(g)
       IN IF t \notin StoredTaskIds(g)
          THEN result.outcome = "null" /\ result.returned = Nothing
          ELSE /\ result.outcome = "ok"
               /\ result.returned.task \in rows
               /\ result.returned.task.task_id = t
               /\ Range(result.returned.dependencies)
                    = {r \in rows : <<t, r.task_id>> \in E}
               /\ Range(result.returned.dependents)
                    = {r \in rows : <<r.task_id, t>> \in E}

\* the details of a task with a prerequisite, asked of one of two graphs that both
\* hold the task and its prerequisite under the same task ids
C21_Witness ==
  /\ result.op = "getTaskDetails"
  /\ result.outcome = "ok"
  /\ Len(result.returned.dependencies) = 1
  /\ result.returned.dependencies[1].task_id # result.task_id
  /\ \E h \in DOMAIN graphs :
       /\ h # result.id
       /\ result.task_id \in StoredTaskIds(h)
       /\ result.returned.dependencies[1].task_id \in StoredTaskIds(h)
       /\ StoredEdges(h) = StoredEdges(result.id)

\* ------------------------------------------------------------------ the order of Kahn's queue
\* the row of task t of graph g and the last row declaring that x depends on p
TaskRowIndex(g, t) ==
  CHOOSE k \in 1..Len(tasks) : tasks[k].graph_id = g /\ tasks[k].task_id = t
LastEdgeRowIndex(g, x, p) ==
  SetMax({k \in 1..Len(dependencies) :
            /\ dependencies[k].graph_id = g
            /\ dependencies[k].task_id = x
            /\ dependencies[k].depends_on_task_id = p})

\* the position in s of the prerequisite of x that s lists last: the moment the
\* in-degree of x reaches zero (0 for a task without prerequisites)
ReleasedAt(s, x, E) ==
  IF Prerequisites(x, E) = {} THEN 0
  ELSE SetMax({IndexOf(s, p) : p \in Prerequisites(x, E)})

\* where x stands among the tasks released at the same moment: its declared
\* position without prerequisites, else the row of the edge that released it
QueuedAs(s, x, g) ==
  IF Prerequisites(x, StoredEdges(g)) = {} THEN TaskRowIndex(g, x)
  ELSE LastEdgeRowIndex(g, x, s[ReleasedAt(s, x, StoredEdges(g))])

\* s lists the tasks of graph g in the order a first-in first-out queue emits them
IsFifoKahnOrder(s, g) ==
  /\ IsTopologicalOrder(s, StoredTaskIds(g), StoredEdges(g))
  /\ \A i, j \in 1..Len(s) :
       i < j => LET ri == ReleasedAt(s, s[i], StoredEdges(g))
                    rj == ReleasedAt(s, s[j], StoredEdges(g))
                IN \/ ri < rj
                   \/ ri = rj /\ QueuedAs(s, s[i], g) < QueuedAs(s, s[j], g)

\* C22: for acyclic input topological_order is the sequence FIFO Kahn produces:
\* the tasks without prerequisites in declared order, then every other task at the
\* moment its in-degree reaches zero, dependents examined in the order their edges
\* were declared.
C22_OrderIsFifoKahn ==
  (Computed /\ AcyclicStored(result.id))
    => /\ ~result.analysis.topological_order.isNull
       /\ IsFifoKahnOrder(result.analysis.topological_order.order, result.id)

\* analyzeGraph on the diamond declared a, b, c, d returns [a, b, c, d]
C22_Witness ==
  /\ Computed
  /\ result.op = "analyzeGraph"
  /\ StoredEdges(result.id) = {<<"b", "a">>, <<"c", "a">>, <<"d", "b">>, <<"d", "c">>}
  /\ result.analysis.topological_order = Order(<<"a", "b", "c", "d">>)

\* ------------------------------------------------------------------ the analysis updateGraph returns
\* the analysis of the rows stored for graph g, as updateGraph computes one
StoredAnalysis(g) ==
  LET taskIds == TaskIdsOf(SelectRows(tasks, g))
      deps == DependencyObjects(SelectRows(dependencies, g))
      cycles == updateDetectCycles(taskIds, deps)
  IN Analysis(Len(cycles) > 0, cycles, topologicalSort(taskIds, deps),
              updateCalculateTaskLevels(taskIds, deps))

\* C23: the analysis updateGraph returns equals the analysis of the tasks and
\* dependencies stored for the graph when it returns, also when only the name or
\* the description was updated and also for a graph created with createGraph.
C23_UpdateReturnsStoredAnalysis ==
  (result.op = "updateGraph" /\ result.outcome = "ok")
    => result.analysis = StoredAnalysis(result.id)

\* ------------------------------------------------------------------ Kahn against the search
\* what the loop of topologicalSort emits for the rows stored for graph g
KahnEmitted(g) ==
  LET taskIds == TaskIdsOf(SelectRows(tasks, g))
      deps == DependencyObjects(SelectRows(dependencies, g))
      inDegree == updateInDegree(taskIds, deps)
  IN updateKahn(updateForwardGraph(taskIds, deps), inDegree,
                ZeroDegree(InsertionOrder(taskIds), inDegree), <<>>)

\* C24: for unique ids and valid references Kahn's loop emits all tasks exactly
\* when the search reports no cycle; so updateGraph returns a null
\* topological_order exactly when has_cycles is true, and on a cyclic graph the
\* loop stops with fewer entries than tasks.
C24_KahnAgreesWithSearch ==
  (Computed /\ result.op = "updateGraph"
     /\ UniqueTaskIds(result.id) /\ EndpointsDeclared(result.id))
    => LET emitted == KahnEmitted(result.id)
           n == StoredTaskCount(result.id)
       IN /\ (Len(emitted) = n) <=> ~result.analysis.has_cycles
          /\ result.analysis.topological_order.isNull <=> result.analysis.has_cycles
          /\ result.analysis.has_cycles => Len(emitted) < n

\* an update to three tasks of which two depend on each other: the loop emits the
\* third task and stops
C24_Witness ==
  /\ Computed
  /\ result.op = "updateGraph"
  /\ UniqueTaskIds(result.id)
  /\ StoredTaskCount(result.id) = 3
  /\ result.analysis.has_cycles
  /\ result.analysis.topological_order.isNull
  /\ Len(KahnEmitted(result.id)) = 1

\* ------------------------------------------------------------------ termination of the analyses
RunDone == run.phase = "done"

\* the search has entered no task twice, the Kahn loop has emitted no task twice
\* and calculateLevel has worked out the level of no task twice
RunVisitsOnce ==
  /\ \A t \in DOMAIN run.entered : run.entered[t] <= 1
  /\ Len(run.order) = Cardinality(Range(run.order))
  /\ \A t \in DOMAIN run.levelled : run.levelled[t] <= 1

\* what the finished run holds is what the handlers return for the stored graph
RunProducesAnalysis ==
  RunDone
    => LET a == analyzeGraph(SelectRows(tasks, 1), SelectRows(dependencies, 1))
           list == graphs[1].graph_data.tasks
       IN /\ run.cycles = a.cycles
          /\ ~a.has_cycles => run.order = a.topological_order.order
          /\ run.levels = createCalculateTaskLevels(TaskIdsOf(list),
                                                    createDependsOnMap(list))
          /\ DOMAIN run.levels = StoredTaskIds(1)

\* C25: every analysis terminates on every finite graph, cyclic or not: the search
\* enters each task at most once, Kahn's loop emits each task at most once, level
\* assignment stops on a cyclic graph too, and each run ends with a result.
C25_AnalysesTerminate ==
  /\ [](RunVisitsOnce /\ RunProducesAnalysis)
  /\ <>RunDone

\* a finished run on a graph of three tasks with a cycle: each task was entered,
\* and each has its level
C25_Witness ==
  /\ RunDone
  /\ Len(run.cycles) > 0
  /\ Cardinality(DOMAIN run.levels) = 3
  /\ \A t \in DOMAIN run.entered : run.entered[t] = 1
  /\ \E t \in DOMAIN run.levelled : run.levelled[t] = 1 /\ run.levels[t] = 2

\* ------------------------------------------------------------------ rejected updates
\* C26: when updateGraph is rejected for an unknown dependency reference, the
\* stored name, description, tasks and dependencies of the graph are the same as
\* before the call.
C26_RejectedUpdateChangesNothing ==
  [][(result'.op = "updateGraph" /\ result'.outcome = "UnknownTaskReference")
       => UNCHANGED <<graphs, tasks, dependencies>>]_vars

\* ------------------------------------------------------------------ the four entry points
\* the task list graph g was stored from, when its rows are still those of the list
StoredFrom(g) == graphs[g].graph_data.tasks
StoredFromValidList(g) ==
  /\ Has(graphs, g)
  /\ ~RepeatsTaskId(StoredFrom(g))
  /\ ~NamesUndeclared(StoredFrom(g))
  /\ TaskIdsOf(SelectRows(tasks, g)) = TaskIdsOf(StoredFrom(g))
  /\ DependencyObjects(SelectRows(dependencies, g)) = allDependencies(StoredFrom(g))

\* what createGraph and updateGraph return for the list and what analyzeGraph and
\* getGraphDetails return for the graph stored from it
FourAnalyses(g) ==
  {createAnalysis(StoredFrom(g)), updateAnalysis(StoredFrom(g)),
   analyzeGraph(SelectRows(tasks, g), SelectRows(dependencies, g)),
   detailsAnalyzeGraph(SelectRows(tasks, g), SelectRows(dependencies, g))}

\* C27: for every valid task list createGraph, updateGraph with the same tasks,
\* and analyzeGraph and getGraphDetails on the graph stored from it return the
\* same has_cycles, and for acyclic input the same topological_order and the same
\* task_levels.
C27_EntryPointsAgree ==
  (Computed /\ StoredFromValidList(result.id))
    => \A a \in FourAnalyses(result.id) :
         /\ a.has_cycles = result.analysis.has_cycles
         /\ ~result.analysis.has_cycles
              => /\ a.topological_order = result.analysis.topological_order
                 /\ a.task_levels = result.analysis.task_levels

\* getGraphDetails on an acyclic graph of three tasks with two dependents of the
\* same task, stored by an update
C27_Witness ==
  /\ Computed
  /\ result.op = "getGraphDetails"
  /\ StoredFromValidList(result.id)
  /\ graphs[result.id].graph_data.analysis.present
  /\ ~result.analysis.has_cycles
  /\ Len(result.analysis.topological_order.order) = 3
  /\ \E t \in StoredTaskIds(result.id) :
       Cardinality({e \in StoredEdges(result.id) : e[2] = t}) = 2

\* ------------------------------------------------------------------ levels along the order
\* C28: for every acyclic graph levels never decrease along the returned
\* topological_order: a task listed before another has a level no larger.
C28_LevelsRiseAlongOrder ==
  (Computed /\ AcyclicStored(result.id))
    => LET order == result.analysis.topological_order.order
           levels == result.analysis.task_levels
       IN /\ ~result.analysis.topological_order.isNull
          /\ Range(order) \subseteq DOMAIN levels
          /\ \A i, j \in 1..Len(order) :
               i < j => levels[order[i]] <= levels[order[j]]

\* getGraphDetails on the diamond: one task of level 0, two of level 1 and then
\* the task of level 2
C28_Witness ==
  /\ Computed
  /\ result.op = "getGraphDetails"
  /\ AcyclicStored(result.id)
  /\ Len(result.analysis.topological_order.order) = 4
  /\ LET order == result.analysis.topological_order.order
         levels == result.analysis.task_levels
     IN <<levels[order[1]], levels[order[2]], levels[order[3]], levels[order[4]]>>
          = <<0, 1, 1, 2>>

\* ------------------------------------------------------------------ reports per edge
\* the number of dependency rows of graph g
StoredEdgeCount(g) ==
  Cardinality({k \in 1..Len(dependencies) : dependencies[k].graph_id = g})

\* C29: each declared dependency edge triggers at most one cycle report: cycles
\* never has more entries than the graph has edges, and when no (dependent,
\* prerequisite) pair is declared twice it never contains the same sequence twice.
C29_OneReportPerEdge ==
  Computed
    => LET cycles == result.analysis.cycles
       IN /\ Len(cycles) <= StoredEdgeCount(result.id)
          /\ StoredEdgeCount(result.id) = Cardinality(StoredEdges(result.id))
               => \A i, j \in 1..Len(cycles) : i # j => cycles[i] # cycles[j]

\* getGraphDetails on three tasks with four different edges: two cycles reported,
\* every task on one of them
C29_Witness ==
  /\ Computed
  /\ result.op = "getGraphDetails"
  /\ StoredTaskCount(result.id) = 3
  /\ StoredEdgeCount(result.id) = 4
  /\ Cardinality(StoredEdges(result.id)) = 4
  /\ Len(result.analysis.cycles) = 2
  /\ \A t \in StoredTaskIds(result.id) :
       \E c \in Range(result.analysis.cycles) : t \in Range(c)

\* ------------------------------------------------------------------ cyclic input
\* the pairs <<dependent, prerequisite>> a task list declares
ListedEdges(list) ==
  {<<list[x[1]].task_id, list[x[1]].dependencies[x[2]]>> : x \in Listed(list)}

ValidCyclicList(list) ==
  /\ ~RepeatsTaskId(list)
  /\ ~NamesUndeclared(list)
  /\ HasDirectedCycle(ListedEdges(list))

\* C30: createGraph does not reject cyclic input: for a task list with unique ids
\* and valid references that contains a cycle it succeeds, stores the graph with
\* all its tasks and dependencies and returns has_cycles = true with a non-empty
\* cycles list; analyzeGraph of the graph as created reports has_cycles = true.
C30_CyclicInputIsStored ==
  /\ (result.op = "createGraph" /\ ValidCyclicList(result.tasks.list))
       => /\ result.outcome = "ok"
          /\ Has(graphs, result.id)
          /\ TasksStored(result.tasks.list, SelectRows(tasks, result.id))
          /\ EdgesStored(result.tasks.list, SelectRows(dependencies, result.id))
          /\ result.analysis.has_cycles
          /\ Len(result.analysis.cycles) > 0
  /\ (result.op = "analyzeGraph" /\ StoredFromValidList(result.id)
        /\ ~graphs[result.id].graph_data.analysis.present
        /\ ValidCyclicList(StoredFrom(result.id)))
       => /\ result.outcome = "ok"
          /\ result.analysis.has_cycles

\* analyzeGraph of a graph that createGraph stored from three tasks depending on
\* each other in a ring
C30_Witness ==
  /\ result.op = "analyzeGraph"
  /\ result.outcome = "ok"
  /\ result.analysis.has_cycles
  /\ StoredFromValidList(result.id)
  /\ ~graphs[result.id].graph_data.analysis.present
  /\ IsRing(result.id)
  /\ StoredTaskCount(result.id) = 3
====
